---- MODULE Spec2Model ----
(***************************************************************************)
(* Model of tools/python_utilities/reporter.py: Reporter.report fans one   *)
(* verify/fix task per file out over a ThreadPoolExecutor, every task's    *)
(* done-callback funnels into Reporter._on_job_complete under one lock,    *)
(* and after executor.shutdown(wait=True) the passing/failing lists are    *)
(* rendered and turned into the return value.                              *)
(*                                                                         *)
(* Thread 0 is the thread that calls report; threads 1..max_workers are    *)
(* the pool's workers.                                                     *)
(***************************************************************************)
EXTENDS Integers, Sequences, FiniteSets, TLC

\* ------------------------------------------------------------------ bounds
MaxFiles == 3
MaxJobs == 2
CpuCount == 2
MaxBarFiles == 2
MaxHangFiles == 2
MaxHostFiles == 1
MaxExitFiles == 257
StatusRange == 256
MaxPaths == 2
MaxFound == 1
MaxArgs == 2
MaxAgainFiles == 1
MaxReports == 1
MaxChecks == 3
MaxReturnCode == 2
TerminalColumns == 80
MaxContent == 2
MaxLines == 4
MaxDeltas == 2
MaxBody == 2
MaxBodyDeltas == 1
MaxChanged == 2
MaxStream == 2
MaxTidyFiles == 2

\* ------------------------------------------------------------- vocabulary
None == "None"
Main == 0

\* what `reportable` is an instance of
Reportables == {"Verifier", "Fixer", "VerifierFixer", "Reportable"}

\* what one call of verify / on_fix can do: return ReportEntry(succeeded),
\* return ReportEntry(not succeeded), raise an Exception, or raise a
\* BaseException that is not an Exception (SystemExit, KeyboardInterrupt)
CallOutcomes == {"pass", "fail", "raise", "exit"}

\* the outcomes that are an exception
Raised == {"raise", "exit"}

VARIABLES
  files,          \* self._files (a list of paths; paths are numbered)
  reportable,     \* the class of self._reportable
  fix,            \* report's fix argument
  max_workers,    \* the executor's max_workers
  pc,             \* where the calling thread is inside report
  idx,            \* position of the `for file in self._files` loop
  ret,            \* report's return value: <<>> until it returns <<v>>
  executor,       \* TRUE once ThreadPoolExecutor(...) was constructed
  future,         \* future[i]: state of the future of task i
  result,         \* result[i]: what the task's fix/verify call produced
  callbacks,      \* callbacks[i]: done-callback registered on future i
  queue,          \* the executor's work queue (FIFO of task numbers)
  worker,         \* worker[w]: the task worker w is executing, 0 if none
  handler,        \* handler[t]: position of thread t inside the callback
  lock,           \* self._lock: the set of threads that hold it
  passing_files,  \* self._passing_files
  failing_files,  \* self._failing_files
  current_job,    \* self._token._current_job
  show_progress,  \* self._show_progress
  verbose,        \* report's verbose argument
  calls,          \* calls[i]: the verify / on_fix calls task i made
  bar,            \* self._token._progress_bar, with its writes counted
  rendered,       \* what report has printed about the run, in order
  entered,        \* entered[i]: how often _on_job_complete was entered for task i
  worktree,       \* worktree[p]: the content of file p in the work-tree
  index,          \* index[p]: the content of file p in the staging area
  staged,         \* ReporterOptions.staged
  run,            \* which run of the check over the files this is
  todo,           \* the files the current run has not processed yet
  fixed,          \* fixed[r]: the passing list of run r in fix mode
  text,           \* Git.diff: the lines of the diff not read yet
  known,          \* the FileDelta records the diff text was rendered from
  change,         \* Git.diff: `change`, <<>> for None
  parsed,         \* Git.diff: `result`
  diff_pc,        \* where Git.diff is
  headers,        \* how many `diff --git` lines Git.diff has read
  nread,          \* how many lines Git.diff has read
  last,           \* Git.diff: `line`, the line read last
  tidy_pc,        \* where ClangTidyVerifier.verify is
  procs,          \* the subprocesses the verify call has running
  line_filters,   \* the line_filters argument of ClangTidy.execute
  process,        \* the CompletedProcess of the tool a check has run
  entry,          \* the ReportEntry built from it, <<>> before
  printed,        \* the sections the verbose dump of the entry printed
  entry_pc,       \* ReportEntry.print / print_error: the exception that left it
  command,        \* ClangTidy: self._command
  postfix,        \* the call of _postfix_command and what it returned
  script,         \* the host script whose main is running, "none" if none
  argv_fix,       \* whether --fix is on the command line
  options,        \* main: `options`, <<>> until make_options_for returns
  reports,        \* how many calls of report on this Reporter have returned
  status,         \* the exit status of the script's process, <<>> while it runs
  hooks,          \* CheckReporter: self._hooks, each with what execute does
  column_width,   \* CheckReporter.report: column_width, 0 for None
  isatty,         \* whether the standard output is a terminal
  check_pc,       \* where CheckReporter.report is
  count,          \* CheckReporter.report: count
  is_passing,     \* CheckReporter.report: is_passing
  executed,       \* the hooks whose execute was called, in call order
  check_ret       \* CheckReporter.report: its return value, <<>> until then

reporter_vars ==
  <<files, reportable, fix, max_workers, pc, idx, ret, executor,
    future, result, callbacks, queue, worker, handler, lock,
    passing_files, failing_files, current_job, show_progress, verbose,
    calls, bar, rendered, entered>>
fix_vars == <<worktree, index, staged, run, todo, fixed>>
diff_vars == <<text, known, change, parsed, diff_pc, headers, nread, last>>
tool_vars == <<process, entry, printed, entry_pc, command, postfix>>
tidy_vars == <<tidy_pc, procs, line_filters, tool_vars>>
main_vars == <<script, argv_fix, options, reports, status>>
check_vars ==
  <<hooks, column_width, isatty, check_pc, count, is_passing, executed,
    check_ret>>

vars ==
  <<reporter_vars, fix_vars, main_vars, check_vars, diff_vars, tidy_vars>>

\* what no step of Reporter.report changes
config ==
  <<files, reportable, show_progress, verbose, fix_vars, main_vars,
    check_vars, diff_vars, tidy_vars>>
report_state == <<passing_files, failing_files, current_job>>

Max(a, b) == IF a > b THEN a ELSE b
PoolCap == Max(MaxJobs, CpuCount)
Workers == 1..PoolCap
Threads == {Main} \cup Workers
Tasks == 1..MaxFiles

NoHandler == [pc |-> "none", task |-> 0]

\* ------------------------------------------------------- pure definitions
IsVerifier(r) == r \in {"Verifier", "VerifierFixer"}
IsFixer(r) == r \in {"Fixer", "VerifierFixer"}

\* (mutant) only the first of the two isinstance checks is made
ConfigErrorFixOnly(r, f) == f /\ ~IsFixer(r)

\* report: the two isinstance checks that raise ValueError
ConfigError(r, f) == \/ f /\ ~IsFixer(r)
                     \/ ~f /\ ~IsVerifier(r)

\* (mutant) the empty file list is not special-cased
NoFilesNever(fs) == FALSE

\* report: `if len(self._files) == 0`
NoFiles(fs) == Len(fs) = 0

\* report: `jobs = jobs or multiprocessing.cpu_count()` (0 stands for None)
EffectiveJobs(j) == IF j = 0 THEN CpuCount ELSE j

\* (mutant) fix goes straight to on_fix
FixerFixNoVerify(r, v, o) == o

\* Fixer.fix, given what verify and on_fix would do on the file
Fixer_fix(r, v, o) ==
  IF IsVerifier(r)
  THEN IF v \in Raised THEN v
       ELSE IF v = "pass" THEN None
       ELSE o
  ELSE o

\* the calls Fixer.fix makes, each with what it did
FixerCalls(r, v, o) ==
  IF IsVerifier(r)
  THEN IF v = "fail"
       THEN <<[fn |-> "verify", out |-> v], [fn |-> "on_fix", out |-> o]>>
       ELSE <<[fn |-> "verify", out |-> v]>>
  ELSE <<[fn |-> "on_fix", out |-> o]>>

\* the calls made by what report submits for one file
TaskCalls(r, f, v, o) ==
  IF f THEN FixerCalls(r, v, o) ELSE <<[fn |-> "verify", out |-> v]>>

\* the call that report submits for one file
TaskResult(r, f, v, o) == IF f THEN Fixer_fix(r, v, o) ELSE v

\* (mutant) verify mode returns the number of failing files
ReportVerificationCount(failing) == Len(failing)

\* _report_verification: the return value
ReportVerification(failing) == IF failing = <<>> THEN 0 ELSE 1

\* (mutant) fix mode returns a flag instead of the count
ReportFixFlag(passing, failing) == IF failing = <<>> THEN 0 ELSE 1

\* _report_fix: the return value
ReportFix(passing, failing) ==
  IF failing = <<>> /\ passing = <<>> THEN 0 ELSE Len(failing)

\* Reportable.verbose_flags()[0] and Fixer.fix_flags()[0]
VerboseFlag == "-v"
FixFlag == "--fix"

\* (mutant) the fix command is suggested whatever the check is
ReportVerificationPrintsFixAlways(passing, failing, vb, r) ==
  IF failing = <<>> THEN <<[what |-> "passed", count |-> Len(passing)]>>
  ELSE <<[what |-> "failed", files |-> failing]>>
       \o (IF ~vb THEN <<[what |-> "command", flag |-> VerboseFlag]>>
           ELSE <<>>)
       \o <<[what |-> "command", flag |-> FixFlag]>>

\* (mutant) the verbose command is suggested whatever the verbose option is
ReportVerificationPrintsVerboseAlways(passing, failing, vb, r) ==
  IF failing = <<>> THEN <<[what |-> "passed", count |-> Len(passing)]>>
  ELSE <<[what |-> "failed", files |-> failing],
         [what |-> "command", flag |-> VerboseFlag]>>
       \o (IF IsFixer(r) THEN <<[what |-> "command", flag |-> FixFlag]>>
           ELSE <<>>)

\* _report_verification: what it prints. On success the count of passing
\* files; on failure the list of failing files, then the command of this
\* run with the verbose flag appended unless the run is verbose, then that
\* command with the fix flag appended if the check is a Fixer.
ReportVerificationPrints(passing, failing, vb, r) ==
  IF failing = <<>> THEN <<[what |-> "passed", count |-> Len(passing)]>>
  ELSE <<[what |-> "failed", files |-> failing]>>
       \o (IF ~vb THEN <<[what |-> "command", flag |-> VerboseFlag]>>
           ELSE <<>>)
       \o (IF IsFixer(r) THEN <<[what |-> "command", flag |-> FixFlag]>>
           ELSE <<>>)

\* _report_fix: what it prints
ReportFixPrints(passing, failing) ==
  IF failing = <<>> /\ passing = <<>> THEN <<[what |-> "nothing to fix"]>>
  ELSE (IF passing # <<>> THEN <<[what |-> "fixed", files |-> passing]>>
        ELSE <<>>)
       \o (IF failing # <<>> THEN <<[what |-> "not fixed", files |-> failing]>>
           ELSE <<>>)

\* (mutant) the pool starts a thread per task, whatever max_workers is
PoolUnbounded(w, m) == TRUE

\* ThreadPoolExecutor(max_workers=jobs): thread w belongs to a pool of m
PoolThread(w, m) == w <= m

\* (mutant) the count is incremented twice per completion
TokenIncrementTwice(c) == c + 2

\* _ProgressToken.increment
TokenIncrement(c) == c + 1

\* ProgressBar.clear
BarClear(b) == [b EXCEPT !.shown = FALSE, !.clears = @ + 1]

\* ProgressBar.print_progress_at past its range check: clear, then print
BarPrint(b) == [BarClear(b) EXCEPT !.shown = TRUE, !.redraws = @ + 1]

\* ProgressBar.print_progress_at: the range check that raises ValueError
ProgressError(current, total) == current > total \/ current < 0

\* _on_job_complete: the verbose dump of a failed result, which clears the
\* bar first when progress is shown
VerboseDump(b, vb, sp, res) ==
  IF vb /\ res # None /\ res # "pass" /\ sp THEN BarClear(b) ELSE b

\* (mutant) a None result is filed as a success
ClassifyNoneAsPass(res) == IF res = "fail" THEN "failing" ELSE "passing"

\* _on_job_complete: which list the result goes to
ClassifyTarget(res) ==
  IF res = None THEN "neither"
  ELSE IF res = "pass" THEN "passing" ELSE "failing"

\* the callback of report: f.result() re-raises the task's exception, so
\* _on_job_complete is entered only for a task that returned
CallbackEnters(res) == res \notin Raised

\* where a worker continues once the done-callback was called for task i:
\* an Exception leaving the callback is caught and logged by the future;
\* any other BaseException leaves _WorkItem.run and ends the worker thread
CallbackStart(i, res) ==
  IF CallbackEnters(res) THEN [pc |-> "lock", task |-> i]
  ELSE IF res = "exit" THEN [pc |-> "dead", task |-> i]
  ELSE NoHandler

\* the same on the calling thread, inside add_done_callback: the Exception
\* is caught and logged, any other BaseException leaves report
CallbackStartMain(i, res) ==
  IF CallbackEnters(res) THEN [pc |-> "lock", task |-> i] ELSE NoHandler

\* whether add_done_callback lets the exception of the callback through
CallbackLeavesReport(res) == res = "exit"

\* the count of entries of _on_job_complete once the done-callback was
\* called for task i
Entered(e, i, res) ==
  IF CallbackEnters(res) THEN [e EXCEPT ![i] = @ + 1] ELSE e

\* (mutant) the handler does not wait for the lock
LockIgnored(l) == TRUE

\* _on_job_complete: `with self._lock` blocks until the lock is free
LockFree(l) == l = {}

\* (mutant) executor.shutdown(wait=False)
JoinNoWait(q, w, h) == TRUE

\* executor.shutdown(wait=True): every worker thread has been joined. A
\* thread ends once the queue is empty, or at once when an exception ended
\* it; the tasks queued when the last thread of the pool has ended stay
\* pending
JoinComplete(q, w, h) ==
  /\ \A t \in Workers : w[t] = 0 /\ h[t].pc \in {"none", "dead"}
  /\ \/ q = <<>>
     \/ \A t \in Workers : PoolThread(t, max_workers) => h[t].pc = "dead"

\* ----------------------------------------------------------------- Init
\* ProgressBar.__init__: nothing on the screen yet
NoBar == [shown |-> FALSE, redraws |-> 0, clears |-> 0, final |-> 0]

\* the state Reporter.__init__ leaves, whatever the arguments were
Constructed ==
  /\ fix = FALSE
  /\ max_workers = 0
  /\ pc = "idle"
  /\ idx = 0
  /\ ret = <<>>
  /\ executor = FALSE
  /\ future = [i \in Tasks |-> "none"]
  /\ result = [i \in Tasks |-> "none"]
  /\ callbacks = [i \in Tasks |-> FALSE]
  /\ queue = <<>>
  /\ worker = [w \in Workers |-> 0]
  /\ handler = [t \in Threads |-> NoHandler]
  /\ lock = {}
  /\ passing_files = <<>>
  /\ failing_files = <<>>
  /\ current_job = 0
  /\ calls = [i \in Tasks |-> <<>>]
  /\ bar = NoBar
  /\ rendered = <<>>
  /\ entered = [i \in Tasks |-> 0]

\* no run of a check over file contents is under way
NoFixRuns ==
  /\ worktree = <<>>
  /\ index = <<>>
  /\ staged = FALSE
  /\ run = 0
  /\ todo = {}
  /\ fixed = <<>>

\* `line` before the loop has read anything
NoLine == [k |-> "none"]

\* Git.diff is not running
NoDiff ==
  /\ text = <<>>
  /\ known = <<>>
  /\ change = <<>>
  /\ parsed = <<>>
  /\ diff_pc = "off"
  /\ headers = 0
  /\ nread = 0
  /\ last = NoLine

\* ClangTidyVerifier.verify is not running
NoTidy ==
  /\ tidy_pc = "none"
  /\ procs = {}
  /\ line_filters = <<>>
  /\ process = <<>>
  /\ entry = <<>>
  /\ printed = <<>>
  /\ entry_pc = "ok"
  /\ command = <<>>
  /\ postfix = <<>>

\* no host script is running, and report was not called before
NoMain ==
  /\ script = "none"
  /\ argv_fix = FALSE
  /\ options = <<>>
  /\ reports = 0
  /\ status = <<>>

\* no CheckReporter was constructed
NoChecks ==
  /\ hooks = <<>>
  /\ column_width = 0
  /\ isatty = FALSE
  /\ check_pc = "off"
  /\ count = 0
  /\ is_passing = TRUE
  /\ executed = <<>>
  /\ check_ret = <<>>

\* a Reporter over up to MaxFiles files, progress display off, quiet
Init ==
  /\ \E n \in 0..MaxFiles : files = [i \in 1..n |-> i]
  /\ reportable \in Reportables
  /\ show_progress = FALSE
  /\ verbose = FALSE
  /\ Constructed
  /\ NoFixRuns
  /\ NoDiff
  /\ NoTidy
  /\ NoMain
  /\ NoChecks

\* a Reporter over up to MaxBarFiles files of a check that verifies and
\* fixes, with every setting of show_progress and verbose
InitProgress ==
  /\ \E n \in 0..MaxBarFiles : files = [i \in 1..n |-> i]
  /\ reportable = "VerifierFixer"
  /\ show_progress \in BOOLEAN
  /\ verbose \in BOOLEAN
  /\ Constructed
  /\ NoFixRuns
  /\ NoDiff
  /\ NoTidy
  /\ NoMain
  /\ NoChecks

\* a Reporter over up to MaxHangFiles files, progress display off, quiet
InitHang ==
  /\ \E n \in 0..MaxHangFiles : files = [i \in 1..n |-> i]
  /\ reportable \in Reportables
  /\ show_progress = FALSE
  /\ verbose = FALSE
  /\ Constructed
  /\ NoFixRuns
  /\ NoDiff
  /\ NoTidy
  /\ NoMain
  /\ NoChecks

\* ------------------------------------------------------- report, thread 0
\* report(jobs, fix, verbose) up to the construction of the executor
Report ==
  /\ pc = "idle"
  /\ \E f \in BOOLEAN, j \in 0..MaxJobs :
       /\ fix' = f
       /\ IF ConfigError(reportable, f)
          THEN /\ pc' = "raised"
               /\ UNCHANGED <<ret, rendered, executor, max_workers, idx>>
          ELSE IF NoFiles(files)
          THEN /\ pc' = "returned"
               /\ ret' = <<0>>
               /\ rendered' = <<[what |-> "no files"]>>
               /\ UNCHANGED <<executor, max_workers, idx>>
          ELSE /\ pc' = "submit"
               /\ executor' = TRUE
               /\ max_workers' = EffectiveJobs(j)
               /\ idx' = 1
               /\ UNCHANGED <<ret, rendered>>
  /\ UNCHANGED <<config, entered, future, result, callbacks, queue, worker, handler,
                 lock, report_state, calls, bar>>

\* the loop head and executor.submit(...) for files[idx]
Submit ==
  /\ pc = "submit"
  /\ IF idx > Len(files)
     THEN /\ pc' = "shutdown"
          /\ UNCHANGED <<future, queue>>
     ELSE /\ future' = [future EXCEPT ![idx] = "pending"]
          /\ queue' = Append(queue, idx)
          /\ pc' = "add_done_callback"
  /\ UNCHANGED <<config, entered, rendered, fix, calls, bar, max_workers, idx, ret, executor, result,
                 callbacks, worker, handler, lock, report_state>>

\* future.add_done_callback(callback): registered if the future is not
\* done yet, called at once on this thread if it is
AddDoneCallback ==
  /\ pc = "add_done_callback"
  /\ IF future[idx] = "finished"
     THEN /\ handler' = [handler EXCEPT
                           ![Main] = CallbackStartMain(idx, result[idx])]
          /\ entered' = Entered(entered, idx, result[idx])
          /\ pc' = IF CallbackLeavesReport(result[idx]) THEN "raised"
                   ELSE "callback"
          /\ UNCHANGED callbacks
     ELSE /\ callbacks' = [callbacks EXCEPT ![idx] = TRUE]
          /\ pc' = "callback"
          /\ UNCHANGED <<handler, entered>>
  /\ UNCHANGED <<config, rendered, fix, calls, bar, max_workers, idx, ret, executor, future, result,
                 queue, worker, lock, report_state>>

\* add_done_callback has returned: next iteration of the loop
NextFile ==
  /\ pc = "callback"
  /\ handler[Main].pc = "none"
  /\ idx' = idx + 1
  /\ pc' = "submit"
  /\ UNCHANGED <<config, entered, rendered, fix, calls, bar, max_workers, ret, executor, future, result,
                 callbacks, queue, worker, handler, lock, report_state>>

\* executor.shutdown(wait=True); self._token.clear()
Shutdown ==
  /\ pc = "shutdown"
  /\ JoinComplete(queue, worker, handler)
  /\ bar' = [BarClear(bar) EXCEPT !.final = @ + 1]
  /\ pc' = "render"
  /\ UNCHANGED <<config, entered, rendered, fix, calls, max_workers, idx, ret, executor, future, result,
                 callbacks, queue, worker, handler, lock, report_state>>

\* return self._report_fix() / self._report_verification(verbose)
Render ==
  /\ pc = "render"
  /\ ret' = IF fix THEN <<ReportFix(passing_files, failing_files)>>
                   ELSE <<ReportVerification(failing_files)>>
  /\ rendered' =
       IF fix THEN ReportFixPrints(passing_files, failing_files)
       ELSE ReportVerificationPrints(passing_files, failing_files, verbose,
                                     reportable)
  /\ pc' = "returned"
  /\ UNCHANGED <<config, entered, fix, calls, bar, max_workers, idx, executor, future, result,
                 callbacks, queue, worker, handler, lock, report_state>>

\* --------------------------------------------------------- worker threads
\* An idle worker takes the head of the work queue. Idle workers are
\* interchangeable, so the lowest-numbered idle one is the one that takes it.
Take(w) ==
  /\ PoolThread(w, max_workers)
  /\ worker[w] = 0 /\ handler[w].pc = "none"
  /\ \A v \in 1..(w - 1) : worker[v] # 0 \/ handler[v].pc # "none"
  /\ queue # <<>>
  /\ worker' = [worker EXCEPT ![w] = Head(queue)]
  /\ future' = [future EXCEPT ![Head(queue)] = "running"]
  /\ queue' = Tail(queue)
  /\ UNCHANGED <<config, entered, rendered, fix, calls, bar, max_workers, pc, idx, ret, executor, result,
                 callbacks, handler, lock, report_state>>

\* what the verify call of a task can do: nothing to choose if the task
\* does not call verify
VerifyOutcomes(r, f) ==
  IF f /\ ~IsVerifier(r) THEN {"pass"} ELSE CallOutcomes

\* what the on_fix call of a task can do: nothing to choose if the task
\* does not call on_fix
OnFixOutcomes(r, f, v) ==
  IF f /\ (~IsVerifier(r) \/ v = "fail") THEN CallOutcomes ELSE {"pass"}

\* The submitted call runs to its end; the future gets its result or its
\* exception and the worker calls the callbacks registered by then.
TaskEnds(w, v, o) ==
  /\ LET i == worker[w]
         res == TaskResult(reportable, fix, v, o)
     IN /\ result' = [result EXCEPT ![i] = res]
        /\ calls' = [calls EXCEPT ![i] = TaskCalls(reportable, fix, v, o)]
        /\ future' = [future EXCEPT ![i] = "finished"]
        /\ handler' = [handler EXCEPT ![w] =
                         IF callbacks[i] THEN CallbackStart(i, res)
                                         ELSE NoHandler]
        /\ entered' = IF callbacks[i] THEN Entered(entered, i, res)
                                      ELSE entered
  /\ worker' = [worker EXCEPT ![w] = 0]
  /\ UNCHANGED <<fix, bar, rendered, max_workers, pc, idx, ret, executor,
                 callbacks, queue, lock, report_state>>

\* the same, for a check whose verify and on_fix can do anything
Run(w) ==
  /\ worker[w] # 0
  /\ future[worker[w]] = "running"
  /\ \E v \in VerifyOutcomes(reportable, fix) :
       \E o \in OnFixOutcomes(reportable, fix, v) : TaskEnds(w, v, o)
  /\ UNCHANGED config

\* The submitted call never returns (an external tool that hangs): there is
\* no timeout, so the future stays as it is and the worker stays in the call.
Hang(w) ==
  /\ worker[w] # 0
  /\ future[worker[w]] = "running"
  /\ future' = [future EXCEPT ![worker[w]] = "hung"]
  /\ UNCHANGED <<config, entered, rendered, fix, calls, bar, max_workers, pc, idx, ret, executor,
                 result, callbacks, queue, worker, handler, lock, report_state>>

\* ------------------------------------------------------- _on_job_complete
\* with self._lock:
Acquire(t) ==
  /\ handler[t].pc = "lock"
  /\ LockFree(lock)
  /\ lock' = {t}
  /\ handler' = [handler EXCEPT ![t].pc = "increment"]
  /\ UNCHANGED <<config, entered, rendered, fix, calls, bar, max_workers, pc, idx, ret, executor, future,
                 result, callbacks, queue, worker, report_state>>

\* self._token.increment()
Increment(t) ==
  /\ handler[t].pc = "increment"
  /\ current_job' = TokenIncrement(current_job)
  /\ handler' = [handler EXCEPT ![t].pc = "classify"]
  /\ UNCHANGED <<config, entered, rendered, fix, calls, bar, max_workers, pc, idx, ret, executor, future,
                 result, callbacks, queue, worker, lock, passing_files,
                 failing_files>>

\* the rest of the `with` block: the verbose dump of a failure, the redraw
\* of the progress bar (whose ValueError leaves the block at once), then
\* `if result is None: return` / the append to the passing or failing list
Classify(t) ==
  /\ handler[t].pc = "classify"
  /\ LET i == handler[t].task
         dumped == VerboseDump(bar, verbose, show_progress, result[i])
         raises == show_progress /\ ProgressError(current_job, Len(files))
         target == IF raises THEN "neither" ELSE ClassifyTarget(result[i])
     IN /\ bar' = IF show_progress /\ ~raises THEN BarPrint(dumped) ELSE dumped
        /\ passing_files' = IF target = "passing"
                             THEN Append(passing_files, files[i])
                             ELSE passing_files
        /\ failing_files' = IF target = "failing"
                             THEN Append(failing_files, files[i])
                             ELSE failing_files
  /\ handler' = [handler EXCEPT ![t].pc = "release"]
  /\ UNCHANGED <<config, entered, rendered, fix, calls, max_workers, pc, idx, ret, executor,
                 future, result, callbacks, queue, worker, lock, current_job>>

\* leaving the `with self._lock` block
Release(t) ==
  /\ handler[t].pc = "release"
  /\ lock' = lock \ {t}
  /\ handler' = [handler EXCEPT ![t] = NoHandler]
  /\ UNCHANGED <<config, entered, rendered, fix, calls, bar, max_workers, pc, idx, ret, executor, future,
                 result, callbacks, queue, worker, report_state>>

\* ------------------------------------------------------- the specification
Next ==
  \/ Report
  \/ Submit
  \/ AddDoneCallback
  \/ NextFile
  \/ Shutdown
  \/ Render
  \/ \E w \in Workers : Take(w)
  \/ \E w \in Workers : Run(w)
  \/ \E t \in Threads : Acquire(t)
  \/ \E t \in Threads : Increment(t)
  \/ \E t \in Threads : Classify(t)
  \/ \E t \in Threads : Release(t)

Spec == Init /\ [][Next]_vars

SpecProgress == InitProgress /\ [][Next]_vars

\* Runs in which a check may hang. Every thread that can take a step is
\* scheduled eventually, and a call that does not hang returns.
NextHang ==
  \/ Next
  \/ \E w \in Workers : Hang(w)

SpecHang == InitHang /\ [][NextHang]_vars /\ WF_vars(Next)

\* ------------------------------------- fix runs over the files' contents
\* A file's content is a string over two characters: a newline and one
\* that is not a newline.
Chars == {"x", "\n"}
Contents == UNION {[1..n -> Chars] : n \in 0..MaxContent}

\* content.split('\n')[-1]: what follows the last newline of the content
LastLine(content) ==
  LET nl == {k \in 1..Len(content) : content[k] = "\n"}
  IN IF nl = {} THEN content
     ELSE SubSeq(content, (CHOOSE k \in nl : \A j \in nl : j <= k) + 1,
                 Len(content))

\* TrailingNewlineVerifier.verify on what read_source returned
TrailingNewline_verify(content) ==
  IF LastLine(content) = <<>> THEN "pass" ELSE "fail"

\* TrailingNewlineVerifier.on_fix: append a newline to the work-tree file
TrailingNewline_on_fix(content) == Append(content, "\n")

\* sources.read_file: the staged content or the work-tree content
read_file(p, wt, ix, st) == IF st THEN ix[p] ELSE wt[p]

\* two files whose work-tree and staged contents are arbitrary, about to be
\* run through check-trailing-newline in fix mode
InitFixRuns ==
  /\ files = <<1, 2>>
  /\ reportable = "VerifierFixer"
  /\ show_progress = FALSE
  /\ verbose = FALSE
  /\ Constructed
  /\ NoDiff
  /\ NoTidy
  /\ NoMain
  /\ NoChecks
  /\ worktree \in [1..2 -> Contents]
  /\ index \in [1..2 -> Contents]
  /\ staged \in BOOLEAN
  /\ run = 1
  /\ todo = {1, 2}
  /\ fixed = [r \in 1..2 |-> <<>>]

\* The task of one file in fix mode runs in steps between which the tasks
\* of the other files run. First Fixer.fix calls verify, which reads the
\* file through read_file.
FixVerify(p) ==
  /\ run \in 1..2
  /\ p \in todo
  /\ calls[p] = <<>>
  /\ LET v == TrailingNewline_verify(read_file(p, worktree, index, staged))
     IN  calls' = [calls EXCEPT ![p] = <<[fn |-> "verify", out |-> v]>>]
  /\ future' = [future EXCEPT ![p] = "running"]
  /\ UNCHANGED <<fix_vars, files, reportable, fix, max_workers, pc, idx, ret,
                 executor, result, callbacks, queue, worker, handler, lock,
                 passing_files, failing_files, current_job, show_progress,
                 verbose, bar, rendered, entered, main_vars, check_vars,
                 diff_vars, tidy_vars>>

\* verify reported a failure: on_fix appends a newline to the work-tree file
FixOnFix(p) ==
  /\ p \in todo
  /\ future[p] = "running"
  /\ calls[p] = <<[fn |-> "verify", out |-> "fail"]>>
  /\ worktree' = [worktree EXCEPT ![p] = TrailingNewline_on_fix(@)]
  /\ calls' = [calls EXCEPT ![p] = Append(@, [fn |-> "on_fix", out |-> "pass"])]
  /\ UNCHANGED <<index, staged, run, todo, fixed, files, reportable, fix,
                 max_workers, pc, idx, ret, executor, future, result,
                 callbacks, queue, worker, handler, lock, passing_files,
                 failing_files, current_job, show_progress, verbose, bar,
                 rendered, entered, main_vars, check_vars, diff_vars,
                 tidy_vars>>

\* Fixer.fix returns and the future gets its result: None if verify passed,
\* else what on_fix returned
FixReturn(p) ==
  /\ p \in todo
  /\ future[p] = "running"
  /\ calls[p] # <<[fn |-> "verify", out |-> "fail"]>>
  /\ result' = [result EXCEPT ![p] =
                  Fixer_fix(reportable, calls[p][1].out, "pass")]
  /\ future' = [future EXCEPT ![p] = "finished"]
  /\ UNCHANGED <<fix_vars, files, reportable, fix, max_workers, pc, idx, ret,
                 executor, callbacks, queue, worker, handler, lock,
                 passing_files, failing_files, current_job, show_progress,
                 verbose, calls, bar, rendered, entered, main_vars,
                 check_vars, diff_vars, tidy_vars>>

\* _on_job_complete, from taking the lock to leaving it: the token is
\* incremented, and the file goes to the passing list of the Reporter if
\* the entry succeeded, to the failing list if it did not, and to neither
\* if there is no entry; fixed[run] records the passing list of the run
FixFiled(p) ==
  /\ p \in todo
  /\ future[p] = "finished"
  /\ LockFree(lock)
  /\ current_job' = TokenIncrement(current_job)
  /\ LET target == ClassifyTarget(result[p])
     IN  /\ passing_files' = IF target = "passing"
                              THEN Append(passing_files, p)
                              ELSE passing_files
         /\ failing_files' = IF target = "failing"
                              THEN Append(failing_files, p)
                              ELSE failing_files
         /\ fixed' = IF target = "passing"
                     THEN [fixed EXCEPT ![run] = Append(@, p)]
                     ELSE fixed
  /\ todo' = todo \ {p}
  /\ UNCHANGED <<worktree, index, staged, run, files, reportable, fix,
                 max_workers, pc, idx, ret, executor, future, result,
                 callbacks, queue, worker, handler, lock, show_progress,
                 verbose, calls, bar, rendered, entered, main_vars,
                 check_vars, diff_vars, tidy_vars>>

\* the same command is run a second time, nothing else having happened: a
\* new process, with a new Reporter over the same files
RunAgain ==
  /\ run = 1
  /\ todo = {}
  /\ run' = 2
  /\ todo' = {files[i] : i \in 1..Len(files)}
  /\ calls' = [i \in Tasks |-> <<>>]
  /\ future' = [i \in Tasks |-> "none"]
  /\ result' = [i \in Tasks |-> "none"]
  /\ passing_files' = <<>>
  /\ failing_files' = <<>>
  /\ current_job' = 0
  /\ UNCHANGED <<worktree, index, staged, fixed, files, reportable, fix,
                 max_workers, pc, idx, ret, executor, callbacks, queue,
                 worker, handler, lock, show_progress, verbose, bar,
                 rendered, entered, main_vars, check_vars, diff_vars,
                 tidy_vars>>

NextFixRuns ==
  \/ \E p \in todo : FixVerify(p)
  \/ \E p \in todo : FixOnFix(p)
  \/ \E p \in todo : FixReturn(p)
  \/ \E p \in todo : FixFiled(p)
  \/ RunAgain

SpecFixRuns == InitFixRuns /\ [][NextFixRuns]_vars

\* ----------------------------------------------------------------- Git.diff
\* A string that the code takes apart is the sequence of its characters.

\* the characters str.strip removes
Whitespace == {" ", "\n", "\t"}

\* str.lstrip
RECURSIVE lstrip(_)
lstrip(s) ==
  IF s # <<>> /\ Head(s) \in Whitespace THEN lstrip(Tail(s)) ELSE s

\* str.rstrip
RECURSIVE rstrip(_)
rstrip(s) ==
  IF s # <<>> /\ s[Len(s)] \in Whitespace
  THEN rstrip(SubSeq(s, 1, Len(s) - 1))
  ELSE s

\* str.strip
strip(s) == rstrip(lstrip(s))

\* str.split(sep): the pieces between the separators; a text without a
\* separator, the empty text included, is one piece
RECURSIVE split(_, _)
split(s, sep) ==
  IF \A i \in 1..Len(s) : s[i] # sep THEN <<s>>
  ELSE LET k == CHOOSE i \in 1..Len(s) :
                  s[i] = sep /\ \A j \in 1..(i - 1) : s[j] # sep
       IN  <<SubSeq(s, 1, k - 1)>> \o split(SubSeq(s, k + 1, Len(s)), sep)

\* str.join
RECURSIVE join(_, _)
join(parts, sep) ==
  IF parts = <<>> THEN <<>>
  ELSE IF Len(parts) = 1 THEN parts[1]
  ELSE parts[1] \o <<sep>> \o join(Tail(parts), sep)

\* str.startswith
startswith(s, prefix) ==
  Len(s) >= Len(prefix) /\ SubSeq(s, 1, Len(prefix)) = prefix

\* A line of the diff is what line.startswith and line.split(' ') make of
\* it: the prefix that selects the branch, and the items the branch reads.
\* Paths and hashes are named by strings; Spelling gives the characters of
\* a name, a name of one character being its own spelling.
DevNull == "/dev/null"
ZeroHash == "0000000"
Spelling(s) ==
  CASE s = "/dev/null" -> <<"/", "d", "e", "v", "/", "n", "u", "l", "l">>
    [] s = "/dev//null" -> <<"/", "d", "e", "v", "/", "/", "n", "u", "l", "l">>
    [] s = "/dev/null/" -> <<"/", "d", "e", "v", "/", "n", "u", "l", "l", "/">>
    [] s = "my file.c" -> <<"m", "y", " ", "f", "i", "l", "e", ".", "c">>
    [] s = "my" -> <<"m", "y">>
    [] s = "file.c" -> <<"f", "i", "l", "e", ".", "c">>
    [] s = "0000" -> <<"0", "0", "0", "0">>
    [] s = "0000000" -> <<"0", "0", "0", "0", "0", "0", "0">>
    [] s = "000000000000" ->
         <<"0", "0", "0", "0", "0", "0", "0", "0", "0", "0", "0", "0">>
    [] s = "e69d" -> <<"e", "6", "9", "d">>
    [] s = "dca917f,ef03463" ->
         <<"d", "c", "a", "9", "1", "7", "f", ",",
           "e", "f", "0", "3", "4", "6", "3">>
    [] s = "422c2b7" -> <<"4", "2", "2", "c", "2", "b", "7">>
    [] s = "7be73ce" -> <<"7", "b", "e", "7", "3", "c", "e">>
    [] s = "abc1234" -> <<"a", "b", "c", "1", "2", "3", "4">>
    [] s = "def5678" -> <<"d", "e", "f", "5", "6", "7", "8">>
    [] s = "422c2b7ab3b3" ->
         <<"4", "2", "2", "c", "2", "b", "7", "a", "b", "3", "b", "3">>
    [] OTHER -> <<s>>

\* the paths a line can name, `my file.c` being a file with a space in its
\* name, and the items line.split(' ') cuts such a name into
PathNames ==
  {"f", "g", "x", "y", "/dev/null", "/dev//null", "/dev/null/",
   "my file.c", "my", "file.c"}

\* pathlib.Path(p), named by its str(): repeated and trailing slashes and
\* `.` components are dropped, two leading slashes (and only two) are kept,
\* and the empty path is `.`
Path(p) ==
  LET chars == Spelling(p)
      parts == SelectSeq(split(chars, "/"),
                         LAMBDA x : x # <<>> /\ x # <<".">>)
      root == IF startswith(chars, <<"/", "/">>)
                 /\ ~startswith(chars, <<"/", "/", "/">>)
              THEN <<"/", "/">>
              ELSE IF startswith(chars, <<"/">>) THEN <<"/">> ELSE <<>>
      str == IF root \o join(parts, "/") = <<>> THEN <<".">>
             ELSE root \o join(parts, "/")
  IN  CHOOSE q \in PathNames \cup {"."} : Spelling(q) = str

\* `diff --git <a> <b>`
HeaderLine(a, b) == [k |-> "diff --git", a |-> a, b |-> b]
\* `--- <p>` and `+++ <p>`
FromLine(p) == [k |-> "---", p |-> p]
ToLine(p) == [k |-> "+++", p |-> p]
\* `@@ -<f> +<t> <c>`: f and t are what items[n][1:].split(',') gives, the
\* strings of characters between the commas, and c is items[3], NoItem when
\* the line has fewer than four items
NoItem == "NoItem"
HunkItems(f, t, c) == [k |-> "@@", from |-> f, to |-> t, close |-> c]
\* `@@ -<f> +<t> @@`
HunkLine(f, t) == HunkItems(f, t, "@@")
\* `index <old>..<new>[ <mode>]`: mode is None when the line has two items
IndexLine(old, new, mode) ==
  [k |-> "index", old |-> old, new |-> new, mode |-> mode]
\* `old file mode <m>`, `new file mode <m>`, `deleted file mode <m>`
OldFileMode(m) == [k |-> "old file mode", mode |-> m]
NewFileMode(m) == [k |-> "new file mode", mode |-> m]
DeletedFileMode(m) == [k |-> "deleted file mode", mode |-> m]
\* a line none of the startswith tests matches
OtherLine == [k |-> "other"]
\* `diff --cc <p>`, the header git prints for an unmerged file: it does not
\* start with `diff --git`, and none of the other tests matches it either
CombinedHeader(p) == [k |-> "diff --cc", p |-> p]

\* The characters of a line that names paths. git prints the names as they
\* are, and on the ---/+++ lines a name with a space in it is followed by a
\* tab (`--- my file.c<TAB>`).
HasSpace(p) == \E i \in 1..Len(Spelling(p)) : Spelling(p)[i] = " "
LineText(line) ==
  CASE line.k = "diff --git" ->
         <<"d", "i", "f", "f", " ", "-", "-", "g", "i", "t", " ">>
           \o Spelling(line.a) \o <<" ">> \o Spelling(line.b)
    [] line.k = "---" ->
         <<"-", "-", "-", " ">> \o Spelling(line.p)
           \o (IF HasSpace(line.p) THEN <<"\t">> ELSE <<>>)
    [] line.k = "+++" ->
         <<"+", "+", "+", " ">> \o Spelling(line.p)
           \o (IF HasSpace(line.p) THEN <<"\t">> ELSE <<>>)

\* the name that is spelled chars
Named(chars) == CHOOSE q \in PathNames \cup {"."} : Spelling(q) = chars

\* items[n] of `items = line.split(' ')` for a `diff --git` line
HeaderItem(line, n) == Named(split(LineText(line), " ")[n + 1])

\* line.split(' ')[1].strip() for a ---/+++ line
PathItem(line) == Named(strip(split(LineText(line), " ")[2]))

\* the lines whose branch dereferences `change`
Structural ==
  {"---", "+++", "@@", "index", "old file mode", "new file mode",
   "deleted file mode"}

\* Git.LineInterval
LineInterval(s, e) == [start |-> s, end |-> e]

\* int() of a string: surrounding whitespace is stripped, then an optional
\* sign, then decimal digits with single underscores between them; any
\* other string raises ValueError. A decimal digit of another script counts
\* as a digit: U+0665 is the ARABIC-INDIC DIGIT FIVE.
Digits == <<"0", "1", "2", "3", "4", "5", "6", "7", "8", "9">>
IsDigit(c) == c = "U+0665" \/ \E j \in 1..Len(Digits) : Digits[j] = c
DigitValue(c) ==
  IF c = "U+0665" THEN 5
  ELSE (CHOOSE i \in 1..Len(Digits) : Digits[i] = c) - 1
Unsigned(str) ==
  LET s == strip(str)
  IN  IF s # <<>> /\ s[1] \in {"+", "-"} THEN Tail(s) ELSE s
IsInt(str) ==
  LET body == Unsigned(str)
  IN  /\ body # <<>>
      /\ \A i \in 1..Len(body) :
           \/ IsDigit(body[i])
           \/ /\ body[i] = "_"
              /\ 1 < i /\ i < Len(body)
              /\ IsDigit(body[i - 1]) /\ IsDigit(body[i + 1])
RECURSIVE DigitsValue(_)
DigitsValue(ds) ==
  IF Len(ds) = 0 THEN 0
  ELSE 10 * DigitsValue(SubSeq(ds, 1, Len(ds) - 1)) + DigitValue(ds[Len(ds)])
ParseInt(str) ==
  LET n == DigitsValue(SelectSeq(Unsigned(str), IsDigit))
  IN  IF strip(str)[1] = "-" THEN 0 - n ELSE n

\* str() of a natural number
RECURSIVE Str(_)
Str(n) ==
  IF n < 10 THEN <<Digits[n + 1]>>
  ELSE Str(n \div 10) \o <<Digits[(n % 10) + 1]>>

\* (mutant) a range with count l ends at its l-th line
make_line_interval_exact(entries) ==
  IF Len(entries) = 1
  THEN <<[start |-> ParseInt(entries[1]), end |-> ParseInt(entries[1])]>>
  ELSE IF ParseInt(entries[2]) = 0 THEN <<>>
  ELSE <<[start |-> ParseInt(entries[1]),
          end |-> ParseInt(entries[1]) + ParseInt(entries[2]) - 1]>>

\* Git._make_line_interval on the entries of one side of a hunk header,
\* when no int() raises: <<>> stands for None, <<i>> for the interval i
make_line_interval(entries) ==
  IF Len(entries) = 1
  THEN <<LineInterval(ParseInt(entries[1]), ParseInt(entries[1]))>>
  ELSE IF ParseInt(entries[2]) = 0 THEN <<>>
  ELSE <<LineInterval(ParseInt(entries[1]),
                      ParseInt(entries[1]) + ParseInt(entries[2]))>>

\* Git._make_line_interval: the exception it raises, if any: the assert
\* on the number of entries comes first, then int() of the start, then,
\* with two entries, int() of the length
IntRaises(entries) ==
  IF Len(entries) > 2 THEN "AssertionError"
  ELSE IF ~IsInt(entries[1]) THEN "ValueError"
  ELSE IF Len(entries) = 2 /\ ~IsInt(entries[2]) THEN "ValueError"
  ELSE "ok"

\* the `@@ ` branch on `change` c: the exception it raises, if any. The
\* assert on items[3] comes first, then the from interval and the to
\* interval are computed, and only then is `change` touched.
HunkRaises(c, line) ==
  IF line.close = NoItem THEN "IndexError"
  ELSE IF line.close # "@@" THEN "AssertionError"
  ELSE IF IntRaises(line.from) # "ok" THEN IntRaises(line.from)
  ELSE IF IntRaises(line.to) # "ok" THEN IntRaises(line.to)
  ELSE IF /\ c = <<>>
          /\ \/ make_line_interval(line.from) # <<>>
             \/ make_line_interval(line.to) # <<>>
  THEN "AttributeError"
  ELSE "ok"

\* Git.Diff(): origin is not a field of the class, it records which
\* `diff --git` line the object was constructed for
NewDiff(o) ==
  [from_path |-> None, to_path |-> None,
   from_changes |-> <<>>, to_changes |-> <<>>,
   from_permissions |-> None, to_permissions |-> None,
   from_sha1 |-> None, to_sha1 |-> None, origin |-> o]

\* the index branch, `if change.from_sha1.startswith('0000000')`
ClearFrom(d) ==
  [d EXCEPT !.from_path = None, !.from_permissions = None, !.from_sha1 = None]

\* Git.Diff.is_rename, is_deletion, is_addition
is_rename(d) ==
  d.from_path # d.to_path /\ d.from_path # None /\ d.to_path # None
is_deletion(d) == d.to_path = None
is_addition(d) == d.from_path = None

\* the ---/+++ branches: `None if p == Path('/dev/null') else p`
PathOrNone(p) == IF Path(p) = Path(DevNull) THEN None ELSE Path(p)

\* the branch of the loop body that a line other than a header takes
DiffApply(d, line) ==
  CASE line.k = "---" -> [d EXCEPT !.from_path = PathOrNone(PathItem(line))]
    [] line.k = "+++" -> [d EXCEPT !.to_path = PathOrNone(PathItem(line))]
    [] line.k = "@@" ->
         [d EXCEPT !.from_changes = @ \o make_line_interval(line.from),
                   !.to_changes = @ \o make_line_interval(line.to)]
    [] line.k = "index" ->
         LET d1 == IF line.mode # None
                   THEN [d EXCEPT !.to_permissions = line.mode,
                                  !.from_permissions = line.mode]
                   ELSE d
             d2 == [d1 EXCEPT !.from_sha1 = line.old, !.to_sha1 = line.new]
         IN IF startswith(Spelling(line.old), Spelling(ZeroHash))
            THEN ClearFrom(d2)
            ELSE d2
    [] line.k = "old file mode" -> [d EXCEPT !.from_permissions = line.mode]
    [] line.k = "new file mode" -> [d EXCEPT !.to_permissions = line.mode]
    [] line.k = "deleted file mode" ->
         [d EXCEPT !.from_permissions = line.mode]
    [] OTHER -> d

\* one iteration of `for line in lines`, from `change` c and `result` r; n
\* is the number of the header if the line is one
DiffStep(c, r, line, n) ==
  IF line.k = "diff --git"
  THEN [change |-> <<[NewDiff(n) EXCEPT
                        !.from_path = Path(HeaderItem(line, 2)),
                        !.to_path = Path(HeaderItem(line, 3))]>>,
        result |-> r \o c, status |-> "ok"]
  ELSE IF line.k = "@@"
  THEN IF HunkRaises(c, line) # "ok" \/ c = <<>>
       THEN [change |-> c, result |-> r, status |-> HunkRaises(c, line)]
       ELSE [change |-> <<DiffApply(c[1], line)>>, result |-> r,
             status |-> "ok"]
  ELSE IF line.k \in Structural
  THEN IF c = <<>>
       THEN [change |-> c, result |-> r, status |-> "AttributeError"]
       ELSE [change |-> <<DiffApply(c[1], line)>>, result |-> r,
             status |-> "ok"]
  ELSE [change |-> c, result |-> r, status |-> "ok"]

\* the lines a diff is made of here
SomeLines ==
  {HeaderLine("f", "f"), HeaderLine("f", "g"),
   FromLine("f"), FromLine(DevNull), ToLine("g"), ToLine(DevNull),
   HunkLine(<<Str(5)>>, <<Str(5), Str(2)>>),
   HunkLine(<<Str(10), Str(3)>>, <<Str(10), Str(0)>>),
   HunkLine(<<Str(7), Str(1)>>, <<Str(7)>>),
   HunkLine(<<Str(10), <<"x">>>>, <<Str(10)>>),
   HunkLine(<<<<"+", "5">>>>, <<<<"U+0665">>>>),
   HunkLine(<<<<"-", "5">>, Str(2)>>, <<<<"1", "_", "0">>, Str(2)>>),
   HunkLine(<<Str(1), Str(2), Str(3)>>, <<Str(1)>>),
   HunkItems(<<Str(1)>>, <<Str(1)>>, NoItem),
   HunkItems(<<Str(1)>>, <<Str(1)>>, "@@@"),
   IndexLine(ZeroHash, "abc1234", None),
   IndexLine("000000000000", "422c2b7ab3b3", None),
   IndexLine("0000", "e69d", None),
   IndexLine("abc1234", "def5678", "100644"),
   IndexLine("abc1234", ZeroHash, None),
   CombinedHeader("f"), IndexLine("dca917f,ef03463", ZeroHash, None),
   FromLine("/dev//null"), ToLine("/dev/null/"),
   HeaderLine("my file.c", "my file.c"),
   FromLine("my file.c"), ToLine("my file.c"),
   OldFileMode("100755"), NewFileMode("100644"), DeletedFileMode("100644"),
   OtherLine}

\* Git.diff has the output of `git diff` and is about to loop over its lines
InitDiff ==
  /\ files = <<>>
  /\ reportable = "Verifier"
  /\ show_progress = FALSE
  /\ verbose = FALSE
  /\ Constructed
  /\ NoFixRuns
  /\ text = <<>>
  /\ known = <<>>
  /\ change = <<>>
  /\ parsed = <<>>
  /\ diff_pc = "reading"
  /\ headers = 0
  /\ nread = 0
  /\ last = NoLine
  /\ NoTidy
  /\ NoMain
  /\ NoChecks

\* what one iteration does to the state of Git.diff
Read(line) ==
  /\ diff_pc = "reading"
  /\ LET st == DiffStep(change, parsed, line, headers + 1)
     IN /\ change' = st.change
        /\ parsed' = st.result
        /\ diff_pc' = IF st.status = "ok" THEN "reading" ELSE st.status
  /\ headers' = IF line.k = "diff --git" THEN headers + 1 ELSE headers
  /\ nread' = nread + 1
  /\ last' = line

\* the loop reads a line, whatever line the diff has next
ReadLine(line) ==
  /\ nread < MaxLines
  /\ Read(line)
  /\ UNCHANGED <<text, known, reporter_vars, fix_vars, main_vars, check_vars,
                 tidy_vars>>

\* the lines are exhausted: `if change is not None: result.append(change)`
EndOfInput ==
  /\ diff_pc = "reading"
  /\ text = <<>>
  /\ parsed' = parsed \o change
  /\ diff_pc' = "done"
  /\ UNCHANGED <<text, known, change, headers, nread, last, reporter_vars,
                 fix_vars, main_vars, check_vars, tidy_vars>>

NextDiff ==
  \/ \E line \in SomeLines : ReadLine(line)
  \/ EndOfInput

SpecDiff == InitDiff /\ [][NextDiff]_vars

\* the delta c has had its `index` line, and the old hash was all zeros:
\* the branch has cleared it, or it is still there
ZeroIndexRead(c) ==
  /\ c.to_sha1 # None
  /\ \/ c.from_sha1 = None
     \/ \A i \in 1..Len(Spelling(c.from_sha1)) :
          Spelling(c.from_sha1)[i] = "0"

\* ------------------------------------------------- rendering a diff text
\* The text that `git diff --no-prefix` prints for a file whose delta is d:
\* the header, the file-mode line of an addition or deletion, the index
\* line (carrying the mode when the file exists on both sides), the ---/+++
\* pair and one hunk header per changed range.

\* a FileDelta as the caller of Git.diff sees it
FileDelta(fp, tp, fc, tc, fm, tm) ==
  [from_path |-> fp, to_path |-> tp, from_changes |-> fc, to_changes |-> tc,
   from_permissions |-> fm, to_permissions |-> tm]

\* the paths, intervals and permissions of a parsed Git.Diff
Project(d) ==
  FileDelta(d.from_path, d.to_path, d.from_changes, d.to_changes,
            d.from_permissions, d.to_permissions)

\* one side of a hunk header for the k-th interval of a list: `s` for one
\* line, `s,l` for l lines, `s,0` where this side has no lines
RenderRange(changes, k, anchor) ==
  IF k > Len(changes) THEN <<Str(anchor), Str(0)>>
  ELSE IF changes[k].end = changes[k].start THEN <<Str(changes[k].start)>>
  ELSE <<Str(changes[k].start),
         Str(changes[k].end - changes[k].start + 1)>>

RenderHunks(d) ==
  [k \in 1..Max(Len(d.from_changes), Len(d.to_changes)) |->
     HunkLine(RenderRange(d.from_changes, k, 0),
              RenderRange(d.to_changes, k, 0))]

RenderDelta(d) ==
  LET added == d.from_path = None
      deleted == d.to_path = None
  IN <<HeaderLine(IF added THEN d.to_path ELSE d.from_path,
                  IF deleted THEN d.from_path ELSE d.to_path)>>
     \o (IF added THEN <<NewFileMode(d.to_permissions)>>
         ELSE IF deleted THEN <<DeletedFileMode(d.from_permissions)>>
         ELSE <<>>)
     \o <<IndexLine(IF added THEN ZeroHash ELSE "abc1234",
                    IF deleted THEN ZeroHash ELSE "def5678",
                    IF added \/ deleted THEN None ELSE d.to_permissions)>>
     \o <<FromLine(IF added THEN DevNull ELSE d.from_path),
          ToLine(IF deleted THEN DevNull ELSE d.to_path)>>
     \o RenderHunks(d)

RECURSIVE RenderAll(_)
RenderAll(ds) ==
  IF ds = <<>> THEN <<>> ELSE RenderDelta(Head(ds)) \o RenderAll(Tail(ds))

\* the deltas a diff is rendered from: a modified, an added, a deleted and a
\* renamed file, with changed ranges of one line and of several lines
KnownDeltas ==
  {FileDelta("f", "f", c[1], c[2], "100644", "100644") :
     c \in {<<<<>>, <<>>>>,
            <<<<LineInterval(5, 5)>>, <<LineInterval(5, 5)>>>>,
            <<<<LineInterval(10, 12)>>, <<>>>>,
            <<<<LineInterval(3, 3), LineInterval(7, 7)>>,
              <<LineInterval(3, 4)>>>>}}
  \cup {FileDelta(None, "f", <<>>, c, None, "100644") :
          c \in {<<>>, <<LineInterval(1, 1)>>, <<LineInterval(1, 2)>>}}
  \cup {FileDelta("f", None, c, <<>>, "100755", None) :
          c \in {<<>>, <<LineInterval(1, 1)>>, <<LineInterval(1, 3)>>}}
  \cup {FileDelta("f", "g", <<>>, <<>>, "100644", "100644")}

\* Git.diff is about to loop over the text rendered from up to MaxDeltas
\* known deltas
InitRoundTrip ==
  /\ files = <<>>
  /\ reportable = "Verifier"
  /\ show_progress = FALSE
  /\ verbose = FALSE
  /\ Constructed
  /\ NoFixRuns
  /\ known \in UNION {[1..n -> KnownDeltas] : n \in 0..MaxDeltas}
  /\ text = RenderAll(known)
  /\ change = <<>>
  /\ parsed = <<>>
  /\ diff_pc = "reading"
  /\ headers = 0
  /\ nread = 0
  /\ last = NoLine
  /\ NoTidy
  /\ NoMain
  /\ NoChecks

\* the loop reads the next line of the text
ReadText ==
  /\ text # <<>>
  /\ Read(Head(text))
  /\ text' = Tail(text)
  /\ UNCHANGED <<known, reporter_vars, fix_vars, main_vars, check_vars,
                 tidy_vars>>

NextRoundTrip ==
  \/ ReadText
  \/ EndOfInput

SpecRoundTrip == InitRoundTrip /\ [][NextRoundTrip]_vars

\* ------------------------------------------------- hunk bodies in the text
\* A line of a hunk body is a sign (`-` removed, `+` added, ` ` context)
\* followed by the text of the source line, here its words separated by one
\* space. What the loop of Git.diff makes of it is decided by its startswith
\* tests on the whole line: `-` before a text that begins with `-- ` starts
\* with `--- `, `+` before a text that begins with `++ ` starts with `+++ `,
\* and line.split(' ')[1] is then the second word of the text.
BodyLine(sign, words) ==
  IF sign = "-" /\ Len(words) >= 2 /\ words[1] = "--"
  THEN FromLine(words[2])
  ELSE IF sign = "+" /\ Len(words) >= 2 /\ words[1] = "++"
  THEN ToLine(words[2])
  ELSE OtherLine

\* the body lines there are here
BodyLines ==
  {BodyLine("-", <<"x">>), BodyLine("+", <<"y">>),
   BodyLine(" ", <<"--", "x">>), BodyLine("-", <<"--", "x">>),
   BodyLine("+", <<"++", "y">>)}

\* the bodies of a delta: up to MaxBody lines after its hunk headers, none
\* for a delta without a hunk
Bodies(d) ==
  IF d.from_changes = <<>> /\ d.to_changes = <<>> THEN {<<>>}
  ELSE UNION {[1..n -> BodyLines] : n \in 0..MaxBody}

\* the text of deltas ds whose n-th delta has the body bs[n]
RECURSIVE RenderAllWithBodies(_, _)
RenderAllWithBodies(ds, bs) ==
  IF ds = <<>> THEN <<>>
  ELSE RenderDelta(Head(ds)) \o Head(bs)
         \o RenderAllWithBodies(Tail(ds), Tail(bs))

\* Git.diff is about to loop over the text of up to MaxBodyDeltas known
\* deltas with their hunk bodies
InitBody ==
  /\ files = <<>>
  /\ reportable = "Verifier"
  /\ show_progress = FALSE
  /\ verbose = FALSE
  /\ Constructed
  /\ NoFixRuns
  /\ known \in UNION {[1..n -> KnownDeltas] : n \in 0..MaxBodyDeltas}
  /\ \E bs \in [1..Len(known) -> UNION {Bodies(d) : d \in KnownDeltas}] :
       /\ \A n \in 1..Len(known) : bs[n] \in Bodies(known[n])
       /\ text = RenderAllWithBodies(known, bs)
  /\ change = <<>>
  /\ parsed = <<>>
  /\ diff_pc = "reading"
  /\ headers = 0
  /\ nread = 0
  /\ last = NoLine
  /\ NoTidy
  /\ NoMain
  /\ NoChecks

SpecBody == InitBody /\ [][NextRoundTrip]_vars

\* ------------------------------------------------ check-cpp-clang-tidy.py
\* One run of the clang-tidy check in verify mode over one file: the task
\* that report submits is ClangTidyVerifier.verify, which asks git for the
\* file's diff, turns it into line filters and runs clang-tidy.

\* clang_tidy.LineInterval.from_start_and_length
from_start_and_length(start, length) == [start |-> start, end |-> start + length]

\* clang_tidy.LineInterval.closed_interval
closed_interval(s, e) == [start |-> s, end |-> e]

\* (mutant) the filters hold the old side's intervals
diff_to_line_filter_from(diff) ==
  [n \in 1..Len(diff) |->
     [file |-> diff[n].to_path,
      lines |-> [k \in 1..Len(diff[n].from_changes) |->
                   closed_interval(diff[n].from_changes[k].start,
                                   diff[n].from_changes[k].end)]]]

\* ClangTidyVerifier._diff_to_line_filter
diff_to_line_filter(diff) ==
  [n \in 1..Len(diff) |->
     [file |-> diff[n].to_path,
      lines |-> [k \in 1..Len(diff[n].to_changes) |->
                   closed_interval(diff[n].to_changes[k].start,
                                   diff[n].to_changes[k].end)]]]

\* ReportEntry.from_completed_process: succeeded = (returncode == 0)
from_completed_process(returncode) == IF returncode = 0 THEN "pass" ELSE "fail"

\* the lines the file's diff is made of here: what git prints for a file
\* that was modified, added or removed (`old mode` and `new mode` lines
\* match none of the startswith tests), and hunk lines that are malformed
TidyLines ==
  {HeaderLine("f", "f"),
   IndexLine("422c2b7", "7be73ce", "100644"),
   IndexLine(ZeroHash, "422c2b7", None),
   IndexLine("422c2b7", ZeroHash, None),
   FromLine("f"), FromLine(DevNull), ToLine("f"), ToLine(DevNull),
   NewFileMode("100644"), DeletedFileMode("100644"),
   HunkLine(<<Str(5)>>, <<Str(5), Str(2)>>),
   HunkLine(<<Str(7), Str(1)>>, <<Str(7)>>),
   HunkLine(<<Str(10), <<"x">>>>, <<Str(10)>>),
   HunkLine(<<Str(1), Str(2), Str(3)>>, <<Str(1)>>),
   HunkItems(<<Str(1)>>, <<Str(1)>>, NoItem),
   OtherLine}

\* a Reporter over one file for the clang-tidy check
InitTidy ==
  /\ files = <<1>>
  /\ reportable = "VerifierFixer"
  /\ show_progress = FALSE
  /\ verbose = FALSE
  /\ Constructed
  /\ NoFixRuns
  /\ NoDiff
  /\ NoTidy
  /\ NoMain
  /\ NoChecks

\* main: reporter.report(jobs=options.jobs, verbose=options.verbose)
TidyReport == Report /\ ~fix'

\* verify: self._git.diff(...) starts `git diff` with subprocess.run
TidyDiff(w) ==
  /\ worker[w] # 0
  /\ future[worker[w]] = "running"
  /\ tidy_pc = "none"
  /\ tidy_pc' = "git"
  /\ procs' = procs \cup {"git diff"}
  /\ UNCHANGED <<line_filters, tool_vars, reporter_vars, fix_vars, main_vars,
                 check_vars, diff_vars>>

\* the exit statuses of git here: 0, and two of the others
ReturnCodes == {0, 1, 128}

\* Git._execute_command: a return code other than 0 raises RuntimeError
execute_command(returncode) ==
  IF returncode # 0 THEN "RuntimeError" ELSE "reading"

\* subprocess.run returns with the exit status and the output of `git
\* diff`; Git._execute_command raises on a status other than 0, otherwise
\* Git.diff goes on to parse the output
TidyDiffExit ==
  /\ tidy_pc = "git"
  /\ tidy_pc' = "parse"
  /\ procs' = procs \ {"git diff"}
  /\ \E returncode \in ReturnCodes : diff_pc' = execute_command(returncode)
  /\ UNCHANGED <<text, known, change, parsed, headers, nread, last,
                 line_filters, tool_vars, reporter_vars, fix_vars, main_vars,
                 check_vars>>

\* Git.diff returned: the line filters are built and self._tidy.execute
\* starts clang-tidy with subprocess.run
TidyExecute ==
  /\ tidy_pc = "parse"
  /\ diff_pc = "done"
  /\ line_filters' = diff_to_line_filter(parsed)
  /\ procs' = procs \cup {"clang-tidy"}
  /\ tidy_pc' = "tool"
  /\ UNCHANGED <<tool_vars, reporter_vars, fix_vars, main_vars, check_vars,
                 diff_vars>>

\* clang-tidy exits and verify returns ReportEntry.from_completed_process
TidyReturn(w) ==
  /\ tidy_pc = "tool"
  /\ worker[w] # 0
  /\ \E returncode \in {0, 1} :
       TaskEnds(w, from_completed_process(returncode), "pass")
  /\ procs' = procs \ {"clang-tidy"}
  /\ tidy_pc' = "returned"
  /\ UNCHANGED <<line_filters, tool_vars, files, reportable, show_progress,
                 verbose, fix_vars, main_vars, check_vars, diff_vars>>

\* Git.diff raised: nothing in verify catches it, the task ends with the
\* exception
TidyRaise(w) ==
  /\ tidy_pc = "parse"
  /\ diff_pc \in {"ValueError", "AttributeError", "AssertionError",
                 "IndexError", "RuntimeError"}
  /\ worker[w] # 0
  /\ TaskEnds(w, "raise", "pass")
  /\ tidy_pc' = "raised"
  /\ UNCHANGED <<procs, line_filters, tool_vars, files, reportable,
                 show_progress, verbose, fix_vars, main_vars, check_vars,
                 diff_vars>>

NextTidy ==
  \/ TidyReport
  \/ Submit
  \/ AddDoneCallback
  \/ NextFile
  \/ Shutdown
  \/ Render
  \/ \E w \in Workers : Take(w)
  \/ \E w \in Workers : TidyDiff(w)
  \/ TidyDiffExit
  \/ \E line \in TidyLines : ReadLine(line)
  \/ EndOfInput
  \/ TidyExecute
  \/ \E w \in Workers : TidyReturn(w)
  \/ \E w \in Workers : TidyRaise(w)
  \/ \E t \in Threads : Acquire(t)
  \/ \E t \in Threads : Increment(t)
  \/ \E t \in Threads : Classify(t)
  \/ \E t \in Threads : Release(t)

SpecTidy == InitTidy /\ [][NextTidy]_vars

\* ---------------------------------------------------- the host scripts
\* the scripts whose main builds its options with make_options_for and
\* reports with a Reporter; the check of each is a Verifier and a Fixer
HostScripts ==
  {"check-cpp-clang-tidy", "check-cpp-codestyle", "check-license-copyright",
   "check-python-codestyle", "check-trailing-newline", "check-whitespace"}

\* the scripts whose main passes fix=options.fix to report
PassFix ==
  {"check-python-codestyle", "check-trailing-newline", "check-whitespace"}

\* (mutant) every main passes fix=options.fix to report
ReportFixArgumentPassed(s, o) == o.fix

\* main: the fix argument of its call of report; report's default is False
ReportFixArgument(s, o) == IF s \in PassFix THEN o.fix ELSE FALSE

\* one run of a host script over up to MaxHostFiles files, with or without
\* --fix on its command line
InitHost ==
  /\ \E n \in 0..MaxHostFiles : files = [i \in 1..n |-> i]
  /\ reportable = "VerifierFixer"
  /\ show_progress = FALSE
  /\ verbose = FALSE
  /\ Constructed
  /\ NoFixRuns
  /\ NoDiff
  /\ NoTidy
  /\ script \in HostScripts
  /\ argv_fix \in BOOLEAN
  /\ options = <<>>
  /\ reports = 0
  /\ status = <<>>
  /\ NoChecks

\* SourceGroup, by value
SourceGroups == {"all", "staged", "modified", "input"}

\* args.staged: None by default, True with --staged, False with --no-staged
StagedArguments == {None, "--staged", "--no-staged"}

\* make_options_for: read_from_stage
read_from_stage(group, arg) ==
  IF arg = None THEN group = "staged" ELSE arg = "--staged"

\* ReporterOptions.make_options_for: --fix is an argument only for a Fixer,
\* and options.fix is False without it; options.staged is what the source
\* group and --staged / --no-staged make it
MakeOptionsFor ==
  /\ script # "none"
  /\ options = <<>>
  /\ options' = <<[fix |-> IF IsFixer(reportable) THEN argv_fix ELSE FALSE]>>
  /\ \E group \in SourceGroups, arg \in StagedArguments :
       staged' = read_from_stage(group, arg)
  /\ UNCHANGED <<script, argv_fix, reports, status, reporter_vars, worktree,
                 index, run, todo, fixed, check_vars, diff_vars, tidy_vars>>

\* main: return reporter.report(...)
HostReport ==
  /\ options # <<>>
  /\ Report
  /\ fix' = ReportFixArgument(script, options[1])

NextHost ==
  \/ MakeOptionsFor
  \/ HostReport
  \/ Submit
  \/ AddDoneCallback
  \/ NextFile
  \/ Shutdown
  \/ Render
  \/ \E w \in Workers : Take(w)
  \/ \E w \in Workers : Run(w)
  \/ \E t \in Threads : Acquire(t)
  \/ \E t \in Threads : Increment(t)
  \/ \E t \in Threads : Classify(t)
  \/ \E t \in Threads : Release(t)

SpecHost == InitHost /\ [][NextHost]_vars

\* ------------------------------------------ the file list of a host script
\* the paths there are
Paths == 1..MaxPaths

\* the sequences of at most n paths
PathLists(n) == UNION {[1..k -> Paths] : k \in 0..n}

\* what SourceGroup.find returns for the selected group: no path twice
FoundLists ==
  {g \in PathLists(MaxFound) :
     \A i, j \in 1..Len(g) : i # j => g[i] # g[j]}

\* the `file` arguments of the command line, as the user wrote them
ArgLists == PathLists(MaxArgs)

\* make_options_for: files = [f.resolve() for f in find()]; then
\* files.extend(input_files)
Files(g, f) == g \o f

\* a host script before its main has built its options
InitFiles ==
  /\ files = <<>>
  /\ reportable = "VerifierFixer"
  /\ show_progress = FALSE
  /\ verbose = FALSE
  /\ Constructed
  /\ NoFixRuns
  /\ NoDiff
  /\ NoTidy
  /\ script = "check-trailing-newline"
  /\ argv_fix \in BOOLEAN
  /\ options = <<>>
  /\ reports = 0
  /\ status = <<>>
  /\ NoChecks

\* main: options = make_options_for(...) over what the group holds and what
\* the command line names, then Reporter(name, verifier, options.files)
MakeOptionsForFiles ==
  /\ script # "none"
  /\ options = <<>>
  /\ \E g \in FoundLists, f \in ArgLists :
       /\ Len(g) + Len(f) <= MaxFiles
       /\ options' = <<[fix |-> IF IsFixer(reportable) THEN argv_fix ELSE FALSE,
                        found |-> g, file |-> f, files |-> Files(g, f)]>>
       /\ files' = Files(g, f)
  /\ \E group \in SourceGroups, arg \in StagedArguments :
       staged' = read_from_stage(group, arg)
  /\ UNCHANGED <<reportable, fix, max_workers, pc, idx, ret, executor,
                 future, result, callbacks, queue, worker, handler, lock,
                 passing_files, failing_files, current_job, show_progress,
                 verbose, calls, bar, rendered, entered, script, argv_fix,
                 reports, status, worktree, index, run, todo, fixed,
                 check_vars, diff_vars, tidy_vars>>

NextFiles ==
  \/ MakeOptionsForFiles
  \/ HostReport
  \/ Submit
  \/ AddDoneCallback
  \/ NextFile
  \/ Shutdown
  \/ Render
  \/ \E w \in Workers : Take(w)
  \/ \E w \in Workers : Run(w)
  \/ \E t \in Threads : Acquire(t)
  \/ \E t \in Threads : Increment(t)
  \/ \E t \in Threads : Classify(t)
  \/ \E t \in Threads : Release(t)

SpecFiles == InitFiles /\ [][NextFiles]_vars

\* ------------------------------------------- the exit status of a script
\* sys.exit(v) for an integer v: the status the parent of the process sees
\* is the low byte of v
ExitStatus(v) == v % StatusRange

\* what one call of verify / on_fix of a check of the host scripts can do:
\* none of them raises a BaseException that is not an Exception
ScriptOutcomes == CallOutcomes \ {"exit"}

\* A fix run of report with -j 1 over the files, at the point where every
\* task is done, the pool is shut down and report is about to call
\* _report_fix. On every file verify did v and on_fix, if called, did o, and
\* each task ended after its done-callback was registered, so the files
\* were filed in the order of the list.
AfterFixRun(v, o) ==
  LET n == Len(files)
      res == Fixer_fix(reportable, v, o)
      filed == IF CallbackEnters(res) THEN ClassifyTarget(res) ELSE "neither"
      domain == 1..Max(MaxFiles, n)
  IN  /\ fix = TRUE
      /\ max_workers = 1
      /\ pc = "render"
      /\ idx = n + 1
      /\ ret = <<>>
      /\ executor = TRUE
      /\ future = [i \in domain |-> IF i <= n THEN "finished" ELSE "none"]
      /\ result = [i \in domain |-> IF i <= n THEN res ELSE "none"]
      /\ callbacks = [i \in domain |-> i <= n]
      /\ queue = <<>>
      /\ worker = [w \in Workers |-> 0]
      /\ handler = [t \in Threads |-> NoHandler]
      /\ lock = {}
      /\ passing_files = IF filed = "passing" THEN files ELSE <<>>
      /\ failing_files = IF filed = "failing" THEN files ELSE <<>>
      /\ current_job = IF CallbackEnters(res) THEN n ELSE 0
      /\ calls = [i \in domain |->
                    IF i <= n THEN FixerCalls(reportable, v, o) ELSE <<>>]
      /\ bar = [BarClear(NoBar) EXCEPT !.final = 1]
      /\ rendered = <<>>
      /\ entered = [i \in domain |->
                      IF i <= n /\ CallbackEnters(res) THEN 1 ELSE 0]

\* check-python-codestyle.py run with --fix -j 1 over n files, n at least 1,
\* at that point: pycodestyle passes every file, or fails every file and
\* autopep8 then exits with 0 or with another status on each, or one of the
\* two cannot be started. The run of the n tasks is not replayed here.
InitExit ==
  /\ \E n \in 1..MaxExitFiles : files = [i \in 1..n |-> i]
  /\ reportable = "VerifierFixer"
  /\ show_progress = FALSE
  /\ verbose = FALSE
  /\ \E v \in ScriptOutcomes, o \in ScriptOutcomes : AfterFixRun(v, o)
  /\ NoFixRuns
  /\ NoDiff
  /\ NoTidy
  /\ script = "check-python-codestyle"
  /\ argv_fix = TRUE
  /\ options = <<[fix |-> TRUE]>>
  /\ reports = 0
  /\ status = <<>>
  /\ NoChecks

\* sys.exit(main()): the process ends with report's return value as status
SysExit ==
  /\ script # "none"
  /\ pc = "returned"
  /\ status = <<>>
  /\ status' = <<ExitStatus(ret[1])>>
  /\ UNCHANGED <<script, argv_fix, options, reports, reporter_vars, fix_vars,
                 check_vars, diff_vars, tidy_vars>>

NextExit ==
  \/ Render
  \/ SysExit

SpecExit == InitExit /\ [][NextExit]_vars

\* ------------------------------------------- report called a second time
\* a Reporter over up to MaxAgainFiles files of a check that verifies and
\* fixes, on which report is called more than once
InitAgain ==
  /\ \E n \in 0..MaxAgainFiles : files = [i \in 1..n |-> i]
  /\ reportable = "VerifierFixer"
  /\ show_progress = FALSE
  /\ verbose = FALSE
  /\ Constructed
  /\ NoFixRuns
  /\ NoDiff
  /\ NoTidy
  /\ NoMain
  /\ NoChecks

\* report has returned and its caller calls it again on the same Reporter:
\* the locals of the call are those of a new call, and what __init__ set on
\* self (the two lists, the lock, the progress token) is what the call
\* before left there
ReportAgain ==
  /\ pc = "returned"
  /\ reports < MaxReports
  /\ reports' = reports + 1
  /\ pc' = "idle"
  /\ fix' = FALSE
  /\ max_workers' = 0
  /\ idx' = 0
  /\ ret' = <<>>
  /\ executor' = FALSE
  /\ future' = [i \in Tasks |-> "none"]
  /\ result' = [i \in Tasks |-> "none"]
  /\ callbacks' = [i \in Tasks |-> FALSE]
  /\ queue' = <<>>
  /\ worker' = [w \in Workers |-> 0]
  /\ handler' = [t \in Threads |-> NoHandler]
  /\ calls' = [i \in Tasks |-> <<>>]
  /\ rendered' = <<>>
  /\ entered' = [i \in Tasks |-> 0]
  /\ UNCHANGED <<files, reportable, show_progress, verbose, lock,
                 passing_files, failing_files, current_job, bar, script,
                 argv_fix, options, status, fix_vars, check_vars, diff_vars,
                 tidy_vars>>

NextAgain ==
  \/ Report
  \/ Submit
  \/ AddDoneCallback
  \/ NextFile
  \/ Shutdown
  \/ Render
  \/ ReportAgain
  \/ \E w \in Workers : Take(w)
  \/ \E w \in Workers : Run(w)
  \/ \E t \in Threads : Acquire(t)
  \/ \E t \in Threads : Increment(t)
  \/ \E t \in Threads : Classify(t)
  \/ \E t \in Threads : Release(t)

SpecAgain == InitAgain /\ [][NextAgain]_vars

\* ------------------------------------------------------- CheckReporter
\* what a check's execute does: it raises, or it returns a CheckResult
\* with this returncode
Executions ==
  [raises : {FALSE}, returncode : 0..MaxReturnCode]
    \cup {[raises |-> TRUE, returncode |-> 0]}

\* (mutant) the report passes if the check executed last passed
IsPassingLast(p, returncode) == returncode = 0

\* report: is_passing = is_passing and (process.returncode == 0)
IsPassing(p, returncode) == p /\ returncode = 0

\* CheckReporter.__init__, before a standard output that is a terminal or
\* is not one
InitChecks ==
  /\ files = <<>>
  /\ reportable = "Verifier"
  /\ show_progress = FALSE
  /\ verbose = FALSE
  /\ Constructed
  /\ NoFixRuns
  /\ NoDiff
  /\ NoTidy
  /\ NoMain
  /\ hooks = <<>>
  /\ column_width = 0
  /\ isatty \in BOOLEAN
  /\ check_pc = "idle"
  /\ count = 0
  /\ is_passing = TRUE
  /\ executed = <<>>
  /\ check_ret = <<>>

\* add_check(hook)
AddCheck(e) ==
  /\ check_pc = "idle"
  /\ Len(hooks) < MaxChecks
  /\ hooks' = Append(hooks, e)
  /\ UNCHANGED <<column_width, isatty, check_pc, count, is_passing, executed,
                 check_ret, reporter_vars, fix_vars, main_vars, diff_vars,
                 tidy_vars>>

\* report(stdout, column_width) up to the loop: without a column_width the
\* width of the terminal is asked for, which raises OSError if the standard
\* output is no terminal
CheckReport(w) ==
  /\ check_pc = "idle"
  /\ IF w = 0 /\ ~isatty
     THEN /\ check_pc' = "OSError"
          /\ UNCHANGED column_width
     ELSE /\ check_pc' = "loop"
          /\ column_width' = IF w = 0 THEN TerminalColumns ELSE w
  /\ count' = 0
  /\ is_passing' = TRUE
  /\ UNCHANGED <<hooks, isatty, executed, check_ret, reporter_vars, fix_vars,
                 main_vars, diff_vars, tidy_vars>>

\* one iteration of `for hook in self._hooks`
Execute ==
  /\ check_pc = "loop"
  /\ count < Len(hooks)
  /\ count' = count + 1
  /\ executed' = Append(executed, count + 1)
  /\ IF hooks[count + 1].raises
     THEN /\ check_pc' = "raised"
          /\ UNCHANGED is_passing
     ELSE /\ is_passing' = IsPassing(is_passing, hooks[count + 1].returncode)
          /\ UNCHANGED check_pc
  /\ UNCHANGED <<hooks, column_width, isatty, check_ret, reporter_vars,
                 fix_vars, main_vars, diff_vars, tidy_vars>>

\* return 0 if is_passing else 1
CheckReturn ==
  /\ check_pc = "loop"
  /\ count = Len(hooks)
  /\ check_ret' = <<IF is_passing THEN 0 ELSE 1>>
  /\ check_pc' = "returned"
  /\ UNCHANGED <<hooks, column_width, isatty, count, is_passing, executed,
                 reporter_vars, fix_vars, main_vars, diff_vars, tidy_vars>>

NextChecks ==
  \/ \E e \in Executions : AddCheck(e)
  \/ \E w \in {0, TerminalColumns} : CheckReport(w)
  \/ Execute
  \/ CheckReturn

SpecChecks == InitChecks /\ [][NextChecks]_vars

\* ------------------------------------------------------ shared vocabulary
Range(s) == {s[k] : k \in 1..Len(s)}
Count(s, x) == Cardinality({k \in 1..Len(s) : s[k] = x})
Classified == passing_files \o failing_files
Returned == pc = "returned"
Dispatched == 1..Len(files)
VerifyRunDone == Returned /\ ~fix /\ Len(files) > 0
FixRunDone == Returned /\ fix /\ Len(files) > 0
InCritical(t) == handler[t].pc \in {"increment", "classify", "release"}

\* the mode/capability mismatch, as the interface states it
Mismatch(r, f) == \/ f /\ r \notin {"Fixer", "VerifierFixer"}
                  \/ ~f /\ r \notin {"Verifier", "VerifierFixer"}

\* ------------------------------------------------------------------ C1
\* C1: whenever report returns 0 in verify mode on a non-empty file list,
\* every file's verify call returned a successful result, whatever the
\* checks did (a check that raises included).
C1_ZeroMeansAllPassed ==
  (VerifyRunDone /\ ret = <<0>>) => \A i \in Dispatched : result[i] = "pass"

\* ------------------------------------------------------------------ C2
\* C2: after a verify-mode run over N distinct files the passing and the
\* failing list together hold each input file exactly once.
C2_EachFileClassifiedOnce ==
  VerifyRunDone =>
    /\ Len(passing_files) + Len(failing_files) = Len(files)
    /\ \A i \in Dispatched : Count(Classified, files[i]) = 1

\* ------------------------------------------------------------------ C3
\* C3: a task whose verify or fix call raises is turned into a failing
\* result: its file is in the failing list and the exit code is nonzero.
C3_RaiseBecomesFailure ==
  Returned =>
    \A i \in Dispatched :
      result[i] = "raise" => /\ files[i] \in Range(failing_files)
                             /\ ret # <<0>>

\* ------------------------------------------------------------------ C4
\* C4: a fault raised by one file's check does not abort the run: report
\* itself never raises because of it and is never stuck, every dispatched
\* task still runs to completion, and every task that returned a result is
\* classified exactly once, in the list its result calls for.
C4_FaultDoesNotAbort ==
  /\ (\E i \in Dispatched : result[i] \in Raised) =>
       /\ pc # "raised"
       /\ Returned \/ ENABLED Next
  /\ (Returned /\ Len(files) > 0) =>
       \A i \in Dispatched :
         /\ future[i] = "finished"
         /\ result[i] = "pass" => /\ Count(passing_files, files[i]) = 1
                                  /\ Count(failing_files, files[i]) = 0
         /\ result[i] = "fail" => /\ Count(failing_files, files[i]) = 1
                                  /\ Count(passing_files, files[i]) = 0

\* what does hold: as long as no check has raised anything but an
\* Exception, the run is not aborted
C4_ExceptionDoesNotAbort ==
  (\A i \in Dispatched : result[i] # "exit") =>
    /\ (\E i \in Dispatched : result[i] = "raise") =>
         /\ pc # "raised"
         /\ Returned \/ ENABLED Next
    /\ (Returned /\ Len(files) > 0) =>
         \A i \in Dispatched :
           /\ future[i] = "finished"
           /\ result[i] = "pass" => /\ Count(passing_files, files[i]) = 1
                                    /\ Count(failing_files, files[i]) = 0
           /\ result[i] = "fail" => /\ Count(failing_files, files[i]) = 1
                                    /\ Count(passing_files, files[i]) = 0

\* a check raised an Exception and the other files were checked and filed
C4_Witness ==
  /\ Returned
  /\ \E i, j, k \in Dispatched :
       /\ result[i] = "raise" /\ i < j /\ i < k
       /\ result[j] = "pass" /\ files[j] \in Range(passing_files)
       /\ result[k] = "fail" /\ files[k] \in Range(failing_files)

\* the first check raised SystemExit before its callback was added: report
\* has raised and the files after it were never submitted
C4_ReportAborted ==
  /\ pc = "raised"
  /\ executor
  /\ result[1] = "exit"
  /\ \E i \in Dispatched : future[i] = "none"

\* the only worker ended with the SystemExit of the first check: report has
\* returned and the second file was never checked
C4_TaskNeverRun ==
  /\ Returned
  /\ max_workers = 1
  /\ result[1] = "exit"
  /\ handler[1].pc = "dead"
  /\ Len(files) >= 2
  /\ future[2] = "pending"

\* ------------------------------------------------------------------ C5
\* C5: in verify mode with a non-empty file list report returns 0 if the
\* failing list is empty once all tasks are done and exactly 1 otherwise;
\* for three files of which only the first fails, the failing list is
\* exactly that file and the result is 1.
C5_VerifyReturnsZeroOrOne ==
  VerifyRunDone =>
    /\ failing_files = <<>> => ret = <<0>>
    /\ failing_files # <<>> => ret = <<1>>
    /\ (Len(files) = 3 /\ result[1] = "fail" /\ result[2] = "pass"
        /\ result[3] = "pass") =>
         (failing_files = <<files[1]>> /\ ret = <<1>>)

C5_Witness ==
  /\ VerifyRunDone
  /\ Len(failing_files) >= 2
  /\ ret = <<1>>

\* ------------------------------------------------------------------ C6
\* C6: in fix mode report returns the number of files whose fix result was
\* unsuccessful, which is the length of the failing list; it returns 0
\* exactly when no fix failed, also when every fix returned None.
C6_FixReturnsFailureCount ==
  FixRunDone =>
    /\ ret = <<Len(failing_files)>>
    /\ Len(failing_files) =
         Cardinality({i \in Dispatched : result[i] = "fail"})
    /\ ret = <<0>> <=> (\A i \in Dispatched : result[i] # "fail")

C6_Witness ==
  /\ FixRunDone
  /\ ret = <<2>>
  /\ \E i \in Dispatched : result[i] = None

\* ------------------------------------------------------------------ C7
\* C7: report(fix=True) on a non-Fixer and report(fix=False) on a
\* non-Verifier raise before anything is submitted to the pool and leave
\* the passing list, the failing list and the completed count as they were.
C7_MismatchFailsFast ==
  /\ [](pc # "idle" /\ Mismatch(reportable, fix) =>
          /\ pc = "raised"
          /\ ~executor
          /\ queue = <<>>
          /\ \A i \in Tasks : future[i] = "none")
  /\ [][(pc = "idle" /\ pc' # "idle" /\ Mismatch(reportable, fix')) =>
          (pc' = "raised" /\ UNCHANGED report_state)]_vars

C7_Witness ==
  /\ pc = "raised"
  /\ Len(files) > 0
  /\ ~fix /\ reportable = "Fixer"

\* ------------------------------------------------------------------ C8
\* C8: with an empty file list and a capability matching the mode, report
\* returns 0 without creating a worker pool and without any verify or fix
\* call.
C8_EmptyListShortCircuits ==
  (Len(files) = 0 /\ pc # "idle" /\ ~Mismatch(reportable, fix)) =>
    /\ Returned
    /\ ret = <<0>>
    /\ ~executor
    /\ \A i \in Tasks : future[i] = "none" /\ result[i] = "none"

C8_Witness ==
  /\ Len(files) = 0
  /\ Returned
  /\ fix /\ reportable = "Fixer"

\* ------------------------------------------------------------------ C9
\* C9: rendering and the computation of the return value start only after
\* every dispatched task and its completion handler has finished.
C9_ReportAfterJoin ==
  (pc \in {"render", "returned"} /\ executor) =>
    /\ queue = <<>>
    /\ \A i \in Dispatched : future[i] = "finished"
    /\ \A w \in Workers : worker[w] = 0
    /\ \A t \in Threads : handler[t].pc \in {"none", "dead"}
    /\ current_job =
         Cardinality({i \in Dispatched : result[i] \notin Raised})

C9_Witness ==
  /\ pc = "render"
  /\ current_job >= 2
  /\ \E i \in Dispatched : callbacks[i]

\* ------------------------------------------------------------------ C10
\* C10: every mutation of the report state (an append to the passing or to
\* the failing list, an increment of the completed count) is made by the
\* thread holding the report lock, and at most one completion handler is
\* inside the critical section at a time, on a worker thread or on the
\* submitting thread.
C10_MutationsUnderLock ==
  /\ [](\A t \in Threads : InCritical(t) => lock = {t})
  /\ [][report_state' # report_state =>
          \E t \in Threads : /\ lock = {t} /\ lock' = {t}
                             /\ handler[t].pc \in {"increment", "classify"}
                             /\ handler'[t].pc # handler[t].pc]_vars

C10_Witness ==
  /\ handler[Main].pc = "lock"
  /\ \E w \in Workers : handler[w].pc = "classify" /\ lock = {w}

\* ------------------------------------------------------------------ C11
\* C11 (as claimed): the progress bar is only ever mutated by a thread that
\* holds the report lock at that moment.
C11_BarOnlyUnderLock ==
  [][bar' # bar => \E t \in Threads : lock = {t}]_vars

\* C11 (amended): the progress bar is mutated either by a completion handler
\* that holds the report lock, or by report's own clear after the join, when
\* no task is running and no handler is active; so never by two threads at
\* once.
C11_BarUnderLockOrAfterJoin ==
  [][bar' # bar =>
       \/ \E t \in Threads : /\ lock = {t} /\ lock' = {t}
                             /\ handler[t].pc = "classify"
                             /\ handler'[t].pc = "release"
       \/ /\ pc = "shutdown" /\ pc' = "render"
          /\ lock = {}
          /\ \A w \in Workers : worker[w] = 0
          /\ \A t \in Threads : handler[t].pc \in {"none", "dead"}]_vars

C11_Witness ==
  /\ show_progress
  /\ bar.shown /\ bar.redraws >= 1
  /\ \E w \in Workers : handler[w].pc = "release" /\ lock = {w}
  /\ handler[Main].pc = "lock"

\* ------------------------------------------------------------------ C12
\* C12: after the join the progress display is cleared exactly once before
\* rendering, and nothing redraws or clears it after that clear.
C12_ClearedOnceAfterJoin ==
  /\ []((pc \in {"render", "returned"} /\ executor) =>
          (bar.final = 1 /\ ~bar.shown))
  /\ [](pc \notin {"render", "returned"} => bar.final = 0)
  /\ [][(pc \in {"render", "returned"}) => (bar' = bar)]_vars

C12_Witness ==
  /\ pc = "render"
  /\ show_progress
  /\ bar.redraws = 2
  /\ bar.final = 1

\* ------------------------------------------------------------------ C13
\* C13: exactly one task is submitted per entry of the file list, and at no
\* time are more than max_workers check invocations executing.
C13_OneTaskPerFileBoundedPool ==
  /\ executor => max_workers \in {EffectiveJobs(j) : j \in 0..MaxJobs}
  /\ executor => max_workers >= 1
  /\ Cardinality({i \in Tasks : future[i] = "running"}) <= max_workers
  /\ Cardinality({w \in Workers : worker[w] # 0}) <= max_workers
  /\ \A i \in Tasks :
       Count(queue, i) + Cardinality({w \in Workers : worker[w] = i})
         + (IF future[i] = "finished" THEN 1 ELSE 0)
         = (IF future[i] = "none" THEN 0 ELSE 1)
  /\ (pc \in {"shutdown", "render", "returned"} /\ executor) =>
       {i \in Tasks : future[i] # "none"} = Dispatched

C13_Witness ==
  /\ max_workers = 1
  /\ Len(queue) = 2
  /\ \E i \in Tasks : future[i] = "running"

\* ------------------------------------------------------------------ C14
\* C14: Fixer.fix on a Verifier calls verify first; if verify succeeds it
\* returns None without calling on_fix, if verify reports a failure it calls
\* on_fix exactly once and returns its result. On a Fixer that is no
\* Verifier it calls on_fix only.
C14_FixVerifiesFirst ==
  \A i \in Tasks :
    (fix /\ future[i] = "finished") =>
      IF reportable \in {"Verifier", "VerifierFixer"}
      THEN /\ calls[i][1].fn = "verify"
           /\ calls[i][1].out = "pass" =>
                (result[i] = None /\ Len(calls[i]) = 1)
           /\ calls[i][1].out = "fail" =>
                /\ Len(calls[i]) = 2
                /\ calls[i][2].fn = "on_fix"
                /\ result[i] = calls[i][2].out
      ELSE /\ Len(calls[i]) = 1
           /\ calls[i][1].fn = "on_fix"
           /\ result[i] = calls[i][1].out

C14_Witness ==
  /\ fix /\ reportable = "VerifierFixer"
  /\ \E i, j \in Tasks :
       /\ future[i] = "finished" /\ result[i] = None
       /\ future[j] = "finished" /\ Len(calls[j]) = 2 /\ result[j] = "pass"

\* ------------------------------------------------------------------ C15
\* C15: in fix mode a task whose fix returns None adds its file to neither
\* list, while the completed count is still incremented for it.
C15_NoneInNeitherList ==
  fix =>
    /\ \A i \in Dispatched :
         result[i] = None => files[i] \notin Range(Classified)
    /\ Returned =>
         /\ current_job =
              Len(Classified)
                + Cardinality({i \in Dispatched : result[i] = None})
         /\ Len(Classified) =
              Cardinality({i \in Dispatched : result[i] \in {"pass", "fail"}})

C15_Witness ==
  /\ FixRunDone
  /\ Cardinality({i \in Dispatched : result[i] = None}) = 2
  /\ Len(Classified) = 1
  /\ current_job = 3

\* ------------------------------------------------------------------ C16
\* C16: running fix mode twice over the same files with nothing changed in
\* between fixes nothing in the second run: the second run's passing list
\* is empty, whether the check reads the work-tree or the staged content.
C16_SecondRunFixesNothing ==
  run = 2 => fixed[2] = <<>>

\* the same, for a check that reads the work-tree
C16_WorkTreeSecondRunFixesNothing ==
  (run = 2 /\ ~staged) => fixed[2] = <<>>

\* a first run fixed a file and the second run is over
C16_FirstRunFixed ==
  run = 2 /\ todo = {} /\ fixed[1] # <<>>

\* ------------------------------------------------------------------ C17
\* C17: the passing and failing lists grow only at their end, by the file
\* of the handler that is inside the critical section, so their order is
\* the order of completion and not the input order; the completed count
\* goes up by exactly one per handled completion and never goes down.
C17_CompletionOrder ==
  /\ [][/\ passing_files' # passing_files =>
             \E t \in Threads :
               /\ lock = {t}
               /\ passing_files' =
                    Append(passing_files, files[handler[t].task])
        /\ failing_files' # failing_files =>
             \E t \in Threads :
               /\ lock = {t}
               /\ failing_files' =
                    Append(failing_files, files[handler[t].task])
        /\ current_job' # current_job =>
             /\ current_job' = current_job + 1
             /\ \E t \in Threads : /\ handler[t].pc = "increment"
                                   /\ handler'[t].pc = "classify"
        /\ (\E t \in Threads : /\ handler[t].pc = "lock"
                               /\ handler'[t].pc # "lock") =>
             (current_job' = current_job)]_vars
  /\ [](current_job =
          Cardinality({i \in Dispatched :
             /\ future[i] = "finished" /\ result[i] \notin Raised
             /\ \A t \in Threads :
                  handler[t].task = i => handler[t].pc \notin {"lock", "increment"}
             /\ (callbacks[i] \/ idx > i \/ (idx = i /\ pc = "callback"))}))

C17_Witness ==
  /\ Returned
  /\ Len(files) = 3
  /\ passing_files = <<files[3], files[1]>>
  /\ failing_files = <<files[2]>>
  /\ current_job = 3

\* ------------------------------------------------------------------ C18
\* some submitted call is hung
C18_SomeHung == \E i \in Tasks : future[i] = "hung"

\* report has submitted a call
C18_Dispatched == \E i \in Tasks : future[i] # "none"

\* if every dispatched check invocation terminates, a report that has
\* dispatched one eventually returns
C18_AllTerminateReturns ==
  ([]~C18_SomeHung /\ <>C18_Dispatched) => <>(pc = "returned")

\* while a check invocation hangs the call of report does not end: it
\* neither returns nor leaves with an exception
C18_HungNeverEnds == [](C18_SomeHung => pc \notin {"returned", "raised"})

\* a call that hangs stays hung: there is no timeout
C18_NoTimeout ==
  [][\A i \in Tasks : future[i] = "hung" => future'[i] = "hung"]_vars

\* C18: if every dispatched check invocation terminates, report eventually
\* returns; if some check invocation never terminates, report never returns,
\* there being no timeout and no early exit.
C18_ReturnsIffAllTerminate ==
  /\ C18_AllTerminateReturns
  /\ C18_HungNeverEnds
  /\ C18_NoTimeout

\* no check has raised a BaseException that is not an Exception
C18_NoExit == \A i \in Tasks : result[i] # "exit"

\* what does hold: as long as no check raises such an exception, a report
\* that has dispatched returns once every call has ended, and a report that
\* has ended while a call hangs has seen one
C18_ReturnsUnlessExit ==
  /\ ([](~C18_SomeHung /\ C18_NoExit) /\ <>C18_Dispatched) =>
       <>(pc = "returned")
  /\ []((C18_SomeHung /\ pc \in {"returned", "raised"}) => ~C18_NoExit)
  /\ [](C18_SomeHung => pc # "returned")

\* report left with what a check raised while another call hangs
C18_RaisedWhileHung ==
  /\ pc = "raised"
  /\ C18_SomeHung
  /\ \E i \in Tasks : future[i] = "finished" /\ result[i] = "exit"

\* every submitted call has ended, none hung, and report left with what a
\* check raised instead of returning
C18_RaisedAllEnded ==
  /\ pc = "raised"
  /\ C18_Dispatched
  /\ \A i \in Tasks : future[i] \in {"none", "finished"}

\* the join waits for a call that hangs, every other call having ended
C18_Witness ==
  /\ pc = "shutdown"
  /\ \E i \in Dispatched :
       /\ future[i] = "hung"
       /\ \A j \in Dispatched \ {i} : future[j] = "finished"
  /\ \A t \in Threads : handler[t].pc = "none"
  /\ Len(files) >= 2

\* ------------------------------------------------------------------ C19
\* the deltas made so far are one per `diff --git` line read, in the order
\* of those lines
C19_DeltasFollowHeaders ==
  /\ diff_pc = "reading" =>
       /\ Len(parsed) + Len(change) = headers
       /\ change # <<>> => change[1].origin = headers
  /\ diff_pc = "done" => Len(parsed) = headers
  /\ \A n \in 1..Len(parsed) : parsed[n].origin = n

\* C19: parsing a diff emits exactly one FileDelta per `diff --git` line, in
\* the order of those lines, each appended at the next header or at the end
\* of the input, none twice and none lost; and a diff without any header
\* yields the empty list.
C19_OneDeltaPerHeader ==
  /\ C19_DeltasFollowHeaders
  /\ (headers = 0 /\ diff_pc # "reading") => (diff_pc = "done" /\ parsed = <<>>)

\* two headers were read and the parse is over
C19_TwoHeadersParsed ==
  diff_pc = "done" /\ headers = 2 /\ Len(parsed) = 2

\* ------------------------------------------------------------------ C20
\* every changed range of every known delta is a single line
C20_SingleLineRanges ==
  \A n \in 1..Len(known) :
    /\ \A k \in 1..Len(known[n].from_changes) :
         known[n].from_changes[k].start = known[n].from_changes[k].end
    /\ \A k \in 1..Len(known[n].to_changes) :
         known[n].to_changes[k].start = known[n].to_changes[k].end

\* the parse is over and gave the known deltas back
C20_ParsedEqualsKnown ==
  /\ diff_pc = "done"
  /\ Len(parsed) = Len(known)
  /\ \A n \in 1..Len(known) : Project(parsed[n]) = known[n]

\* C20: round trip: rendering N FileDelta records as a diff and parsing the
\* text back yields N FileDeltas equal to the originals on paths, line
\* intervals and permissions.
C20_RoundTrip ==
  diff_pc # "reading" => C20_ParsedEqualsKnown

\* the round trip of deltas whose changed ranges are all single lines
C20_RoundTripSingleLines ==
  (diff_pc # "reading" /\ C20_SingleLineRanges) => C20_ParsedEqualsKnown

\* ------------------------------------------------------------------ C21
\* what the claim says one side of a hunk header adds: [s, s] when the count
\* is omitted, nothing when the count is 0, [s, s + l] otherwise
C21_Adds(entries) ==
  LET s == ParseInt(entries[1])
  IN IF Len(entries) = 1 THEN <<[start |-> s, end |-> s]>>
     ELSE IF ParseInt(entries[2]) = 0 THEN <<>>
     ELSE <<[start |-> s, end |-> s + ParseInt(entries[2])]>>

\* the loop has just read a hunk header for the file `change` stands for
C21_HunkRead ==
  /\ diff_pc = "reading"
  /\ diff_pc' = "reading"
  /\ change # <<>>
  /\ nread' = nread + 1
  /\ last'.k = "@@"

\* C21: every hunk header `@@ -s1[,l1] +s2[,l2] @@` appends to fromChanges
\* and to toChanges, each side on its own, [s, s] when the count is omitted,
\* nothing when the count is 0 and [s, s + l] otherwise, in diff order.
C21_HunkIntervals ==
  [][C21_HunkRead =>
       /\ change'[1].from_changes =
            change[1].from_changes \o C21_Adds(last'.from)
       /\ change'[1].to_changes =
            change[1].to_changes \o C21_Adds(last'.to)]_vars

\* `@@ -5 +5,2 @@` then `@@ -10,3 +10,0 @@` were read for one file
C21_Witness ==
  /\ diff_pc = "done"
  /\ Len(parsed) = 1
  /\ parsed[1].from_changes =
       <<[start |-> 5, end |-> 5], [start |-> 10, end |-> 13]>>
  /\ parsed[1].to_changes = <<[start |-> 5, end |-> 7]>>

\* ------------------------------------------------------------------ C22
\* C22: a FileDelta whose index line reports an all-zero old hash is an
\* addition in the parse result, its fromPath and fromPermissions cleared,
\* whether or not ---/+++ lines were read for the file and wherever they
\* stand relative to the index line.
C22_ZeroHashIsAddition ==
  \A n \in 1..Len(parsed) :
    ZeroIndexRead(parsed[n]) =>
      /\ is_addition(parsed[n])
      /\ parsed[n].from_path = None
      /\ parsed[n].from_permissions = None

\* the loop has just read, for the file `change` stands for, an index line
\* whose old hash starts with seven zeros
C22_ZeroIndexLineRead ==
  /\ diff_pc = "reading"
  /\ diff_pc' = "reading"
  /\ change # <<>>
  /\ nread' = nread + 1
  /\ last'.k = "index"
  /\ startswith(Spelling(last'.old), Spelling(ZeroHash))

\* what the index branch does establish: right after such an index line the
\* delta is an addition, its from path, permissions and hash cleared
C22_IndexBranchClears ==
  [][C22_ZeroIndexLineRead =>
       /\ is_addition(change'[1])
       /\ change'[1].from_path = None
       /\ change'[1].from_permissions = None
       /\ change'[1].from_sha1 = None]_vars

\* `diff --git f f`, `index 0000000..abc1234`, `--- f` were read: the ---
\* line came after the index line and put the from path back, and the
\* parsed delta is not an addition
C22_PathResetAfterIndex ==
  /\ diff_pc = "done"
  /\ Len(parsed) = 1
  /\ nread = 3
  /\ last = FromLine("f")
  /\ parsed[1].from_sha1 = None
  /\ parsed[1].to_sha1 = "abc1234"
  /\ parsed[1].from_path = "f"
  /\ ~is_addition(parsed[1])

\* `diff --git f f`, `index 0000000..abc1234`, `old file mode 100755` were
\* read: the parsed delta has from permissions again
C22_PermissionsResetAfterIndex ==
  /\ diff_pc = "done"
  /\ Len(parsed) = 1
  /\ nread = 3
  /\ last = OldFileMode("100755")
  /\ parsed[1].from_sha1 = None
  /\ parsed[1].to_sha1 = "abc1234"
  /\ parsed[1].from_permissions = "100755"

\* an added file without ---/+++ lines was parsed whose all-zero old hash
\* has four characters, and it is not an addition
C22_ShortZeroHashKept ==
  /\ diff_pc = "done"
  /\ Len(parsed) = 1
  /\ parsed[1].from_sha1 = "0000"
  /\ ~is_addition(parsed[1])
  /\ last.k = "index"

\* the diff of an unmerged file was read, `diff --cc f` and its index line:
\* no delta had been started, and the index branch raised
C22_UnmergedFileRaises ==
  /\ diff_pc = "AttributeError"
  /\ last = IndexLine("dca917f,ef03463", ZeroHash, None)
  /\ change = <<>>
  /\ nread = 2

\* an added file was parsed whose ---/+++ lines came after the index line
C22_Witness ==
  /\ diff_pc = "done"
  /\ Len(parsed) = 1
  /\ ZeroIndexRead(parsed[1])
  /\ last = ToLine("g")
  /\ parsed[1].to_path = "g"
  /\ nread = 4

\* an added file was parsed that had no ---/+++ lines at all
C22_WitnessNoPair ==
  /\ diff_pc = "done"
  /\ Len(parsed) = 1
  /\ ZeroIndexRead(parsed[1])
  /\ last.k = "index"
  /\ nread = 2

\* ------------------------------------------------------------------ C23
\* C23: a hunk header whose numeric fields are malformed is never silently
\* dropped: once the run is over the affected file is on the failing list
\* and the run has not reported success.
C23_MalformedHunkNotDropped ==
  (pc = "returned" /\ diff_pc = "ValueError") =>
    /\ \E k \in 1..Len(failing_files) : failing_files[k] = 1
    /\ ret # <<0>>

\* ------------------------------------------------------------------ C24
\* the loop has just read a line for the file `change` stands for
C24_LineRead ==
  /\ diff_pc = "reading"
  /\ diff_pc' = "reading"
  /\ change # <<>>
  /\ nread' = nread + 1

\* on every parsed delta isAddition() holds iff fromPath is absent,
\* isDeletion() iff toPath is absent, isRename() iff both paths are present
\* and differ
C24_Queries ==
  \A n \in 1..Len(parsed) :
    /\ is_addition(parsed[n]) <=> parsed[n].from_path = None
    /\ is_deletion(parsed[n]) <=> parsed[n].to_path = None
    /\ is_rename(parsed[n]) <=>
         /\ parsed[n].from_path # None
         /\ parsed[n].to_path # None
         /\ parsed[n].from_path # parsed[n].to_path

\* the path a ---/+++ line names stands in the delta: absent when it is
\* /dev/null (compared as pathlib compares paths, as the code does), itself
\* otherwise
C24_PathOfLine(p) == IF Path(p) = Path(DevNull) THEN None ELSE Path(p)

\* C24: `--- /dev/null` makes fromPath absent and `+++ /dev/null` makes
\* toPath absent, any other path replaces the one taken from the header; and
\* on every parsed delta isAddition() holds iff fromPath is absent,
\* isDeletion() iff toPath is absent, isRename() iff both paths are present
\* and differ.
C24_PathsAndQueries ==
  /\ [][C24_LineRead =>
          /\ last'.k = "---" => change'[1].from_path = C24_PathOfLine(last'.p)
          /\ last'.k = "+++" => change'[1].to_path = C24_PathOfLine(last'.p)]_vars
  /\ [](\A n \in 1..Len(parsed) :
          /\ is_addition(parsed[n]) <=> parsed[n].from_path = None
          /\ is_deletion(parsed[n]) <=> parsed[n].to_path = None
          /\ is_rename(parsed[n]) <=>
               /\ parsed[n].from_path # None
               /\ parsed[n].to_path # None
               /\ parsed[n].from_path # parsed[n].to_path)

\* what does hold: the path of a ---/+++ line that has no space in it
\* stands in the delta as the claim says, and the three queries are as the
\* claim says
C24_PathsWithoutSpace ==
  /\ [][(C24_LineRead /\ last'.k \in {"---", "+++"} /\ ~HasSpace(last'.p)) =>
          /\ last'.k = "---" => change'[1].from_path = C24_PathOfLine(last'.p)
          /\ last'.k = "+++" => change'[1].to_path = C24_PathOfLine(last'.p)]_vars
  /\ []C24_Queries

\* `diff --git my file.c my file.c`, `--- my file.c`, `+++ my file.c` were
\* read, and the parsed delta names the file `my` on both sides
C24_SpacedPathCut ==
  /\ diff_pc = "done"
  /\ Len(parsed) = 1
  /\ nread = 3
  /\ last = ToLine("my file.c")
  /\ parsed[1].from_path = "my"
  /\ parsed[1].to_path = "my"

\* `diff --git my file.c my file.c` was read with no ---/+++ line after it
\* (a change of mode): the parsed delta is a rename of `my` to `file.c`
C24_SpacedHeaderIsRename ==
  /\ diff_pc = "done"
  /\ Len(parsed) = 1
  /\ nread = 1
  /\ parsed[1].from_path = "my"
  /\ parsed[1].to_path = "file.c"
  /\ is_rename(parsed[1])

\* a file whose header names f twice was parsed as a deletion after its
\* `+++ /dev/null` line
C24_Witness ==
  /\ diff_pc = "done"
  /\ Len(parsed) = 1
  /\ last = ToLine("/dev/null")
  /\ parsed[1].from_path = "f"
  /\ is_deletion(parsed[1])
  /\ ~is_addition(parsed[1])
  /\ ~is_rename(parsed[1])

\* ------------------------------------------------------------------ C25
\* the fix command is among what was printed
C25_FixSuggested ==
  \E k \in 1..Len(rendered) :
    rendered[k] = [what |-> "command", flag |-> "--fix"]

\* C25: when a verify run ends with at least one failing file, the report
\* suggests the command with the fix flag appended if and only if the check
\* is also a Fixer.
C25_FixHintIffFixer ==
  (pc = "returned" /\ ~fix /\ failing_files # <<>>) =>
    (C25_FixSuggested <=> reportable \in {"Fixer", "VerifierFixer"})

\* a verify run of a check that cannot fix ended with a failing file
C25_Witness ==
  /\ pc = "returned"
  /\ ~fix
  /\ failing_files # <<>>
  /\ reportable = "Verifier"
  /\ ~C25_FixSuggested

\* a verify run of a check that can fix ended with a failing file
C25_WitnessFixer ==
  /\ pc = "returned"
  /\ ~fix
  /\ failing_files # <<>>
  /\ reportable = "VerifierFixer"
  /\ C25_FixSuggested

\* ------------------------------------------------------------------ C26
\* a verify run has returned with at least one failing file
C26_FailedVerify == pc = "returned" /\ ~fix /\ failing_files # <<>>

\* the report starts with the itemized list of the failing files
C26_ListFirst ==
  /\ Len(rendered) >= 1
  /\ rendered[1] = [what |-> "failed", files |-> failing_files]

\* the list is followed by the command with the verbose flag appended
C26_VerboseNext ==
  /\ Len(rendered) >= 2
  /\ rendered[2] = [what |-> "command", flag |-> "-v"]

\* the verbose command appears nowhere in the report
C26_NoVerboseHint ==
  \A k \in 1..Len(rendered) :
    rendered[k] # [what |-> "command", flag |-> "-v"]

\* C26 (as stated): in verify mode, on any failure the report is the list of
\* failing files followed by the command with the verbose flag appended, for
\* every setting of the verbose option.
C26_VerboseHintAlways ==
  C26_FailedVerify => (C26_ListFirst /\ C26_VerboseNext)

\* C26 (amended): in verify mode, on any failure the report starts with the
\* list of failing files; the command with the verbose flag appended follows
\* it when the run was not verbose, and is absent when the run was verbose.
C26_VerboseHintUnlessVerbose ==
  C26_FailedVerify =>
    /\ C26_ListFirst
    /\ ~verbose => C26_VerboseNext
    /\ verbose => C26_NoVerboseHint

\* a verbose verify run failed and reported
C26_Witness ==
  /\ C26_FailedVerify
  /\ verbose
  /\ C26_ListFirst

\* a verify run that was not verbose failed and reported
C26_WitnessQuiet ==
  /\ C26_FailedVerify
  /\ ~verbose
  /\ C26_VerboseNext

\* ------------------------------------------------------------------ C27
\* report was called by the script's main
C27_ReportCalled == script # "none" /\ pc # "idle"

\* every file whose verify call failed had on_fix called on it
C27_FixesPerformed ==
  \A i \in Tasks :
    (future[i] = "finished" /\ calls[i][1].out = "fail") =>
      (Len(calls[i]) = 2 /\ calls[i][2].fn = "on_fix")

\* on_fix was called on no file
C27_NothingFixed ==
  \A i \in Tasks : \A k \in 1..Len(calls[i]) : calls[i][k].fn # "on_fix"

\* the run is in the mode the command line asks for
C27_ModeOfCommandLine ==
  /\ fix = argv_fix
  /\ argv_fix => C27_FixesPerformed
  /\ ~argv_fix => C27_NothingFixed

\* C27: for every host script whose check is a Fixer, report runs in fix
\* mode when --fix is on the command line and in verify mode when it is
\* not, so the fix command a failed verify run suggests performs fixes.
C27_FixFlagRunsFixMode == C27_ReportCalled => C27_ModeOfCommandLine

\* C27, for the scripts whose main passes options.fix to report: the run is
\* in the mode the command line asks for.
C27_FixFlagRunsFixModeWherePassed ==
  (C27_ReportCalled /\ script \in PassFix) => C27_ModeOfCommandLine

\* a script run with --fix has returned after fixing a file
C27_WitnessFixed ==
  /\ script \in PassFix
  /\ argv_fix
  /\ pc = "returned"
  /\ passing_files # <<>>
  /\ \E i \in Tasks : Len(calls[i]) = 2

\* a script run with --fix has returned, a file failed its check, was not
\* fixed, and the report suggests the same --fix command again
C27_FixCommandFixesNothing ==
  /\ script = "check-cpp-clang-tidy"
  /\ argv_fix
  /\ pc = "returned"
  /\ failing_files # <<>>
  /\ C27_NothingFixed
  /\ C25_FixSuggested

\* ------------------------------------------------------------------ C28
\* the line filters are those of the diff Git.diff returned: one filter per
\* delta, for its new path, holding the delta's to_changes in order
C28_FiltersOfDiff ==
  /\ Len(line_filters) = Len(parsed)
  /\ \A n \in 1..Len(parsed) :
       /\ line_filters[n].file = parsed[n].to_path
       /\ Len(line_filters[n].lines) = Len(parsed[n].to_changes)
       /\ \A k \in 1..Len(parsed[n].to_changes) :
            /\ line_filters[n].lines[k].start = parsed[n].to_changes[k].start
            /\ line_filters[n].lines[k].end = parsed[n].to_changes[k].end

\* C28: within one task of the clang-tidy check, `git diff` and clang-tidy
\* never run at the same time, clang-tidy runs only after Git.diff has
\* returned, and the line filters it is given are built from that diff: one
\* filter per delta, holding the delta's to_changes intervals in diff order.
C28_DiffBeforeTool ==
  /\ ~({"git diff", "clang-tidy"} \subseteq procs)
  /\ "git diff" \in procs => (diff_pc = "off" /\ line_filters = <<>>)
  /\ "clang-tidy" \in procs => diff_pc = "done"
  /\ tidy_pc \in {"tool", "returned"} => C28_FiltersOfDiff

\* clang-tidy is running with a filter that holds two intervals
C28_Witness ==
  /\ "clang-tidy" \in procs
  /\ \E n \in 1..Len(line_filters) : Len(line_filters[n].lines) = 2

\* clang-tidy is running on a file that was removed: its filter is for the
\* path None
C28_DeletedFileFiltered ==
  /\ "clang-tidy" \in procs
  /\ last = ToLine(DevNull)
  /\ line_filters = <<[file |-> None, lines |-> <<>>]>>

\* clang-tidy is running on a file that was modified: the delta has the
\* hashes and the mode of its index line
C28_ModifiedFileParsed ==
  /\ "clang-tidy" \in procs
  /\ Len(parsed) = 1
  /\ parsed[1].from_sha1 = "422c2b7" /\ parsed[1].to_sha1 = "7be73ce"
  /\ parsed[1].from_permissions = "100644"
  /\ parsed[1].to_permissions = "100644"
  /\ parsed[1].from_path = "f" /\ parsed[1].to_path = "f"

\* ------------------------------------------------------------------ C29
\* every added check was executed exactly once, in the order added
C29_EachOnceInOrder == executed = [i \in 1..Len(hooks) |-> i]

\* the returncode of every check was 0
C29_AllZero == \A i \in 1..Len(hooks) : hooks[i].returncode = 0

\* C29: when CheckReporter.report returns, it has executed every added
\* check exactly once, in the order added, whether or not an earlier check
\* failed, and it returns 0 if and only if every check's returncode was 0,
\* else 1.
C29_RunsAllReturnsWorst ==
  check_pc = "returned" =>
    /\ C29_EachOnceInOrder
    /\ check_ret = <<IF C29_AllZero THEN 0 ELSE 1>>

\* report returned after a failing check that was followed by a passing one
C29_Witness ==
  /\ check_pc = "returned"
  /\ Len(hooks) = 3
  /\ hooks[1].returncode = 0
  /\ hooks[2].returncode # 0
  /\ hooks[3].returncode = 0
  /\ check_ret = <<1>>
  /\ executed = <<1, 2, 3>>

\* ------------------------------------------------------------------ C30
\* a call of report after the first one has returned
C30_LaterRunReturned == reports >= 1 /\ pc = "returned"

\* every file of this run passed its verify call
C30_AllPassedNow ==
  \A i \in 1..Len(files) : result[i] = "pass"

\* C30: each call of report starts from an empty report state: when a later
\* call returns, the two lists hold at most this run's files, the completed
\* count is at most the number of files, and a verify run in which every
\* file passed returns 0.
C30_RunsStartEmpty ==
  C30_LaterRunReturned =>
    /\ Len(passing_files) + Len(failing_files) <= Len(files)
    /\ current_job <= Len(files)
    /\ (~fix /\ C30_AllPassedNow) => ret = <<0>>

\* C30, for the first call of report on a Reporter: the lists hold at most
\* this run's files and a verify run in which every file passed returns 0.
C30_FirstRunStartsEmpty ==
  (reports = 0 /\ pc = "returned") =>
    /\ Len(passing_files) + Len(failing_files) <= Len(files)
    /\ current_job <= Len(files)
    /\ (~fix /\ C30_AllPassedNow) => ret = <<0>>

\* a second verify run in which the file passed returned 1, the failing
\* list still holding the file from the run before
C30_CarriedOver ==
  /\ C30_LaterRunReturned
  /\ ~fix
  /\ Len(files) = 1
  /\ C30_AllPassedNow
  /\ failing_files = <<1>>
  /\ passing_files = <<1>>
  /\ current_job = 2
  /\ ret = <<1>>

\* ------------------------------------------------------------------ C31
\* the submitted tasks of the run
C31_Submitted == {i \in 1..Len(files) : future[i] # "none"}

\* C31: once report has returned, _on_job_complete was entered exactly once
\* for each submitted task, whether the task finished before or after
\* add_done_callback registered the callback.
C31_HandlerOncePerTask ==
  pc = "returned" => \A i \in C31_Submitted : entered[i] = 1

\* C31, for the tasks whose call returned: _on_job_complete is never entered
\* twice for a task, is not entered before the task has finished, and was
\* entered exactly once when report has returned.
C31_HandlerOncePerReturnedTask ==
  \A i \in Tasks :
    /\ entered[i] <= 1
    /\ entered[i] = 1 => future[i] = "finished"
    /\ (/\ pc = "returned" /\ i \in C31_Submitted
        /\ future[i] = "finished" /\ result[i] \notin Raised)
         => entered[i] = 1

\* the handler of a task that had finished before add_done_callback is
\* running on the submitting thread
C31_WitnessSynchronous ==
  /\ handler[Main].pc = "lock"
  /\ entered[handler[Main].task] = 1
  /\ ~callbacks[handler[Main].task]

\* report returned after a run in which the call of a task raised, and the
\* handler was never entered for that task
C31_RaisedNeverEntered ==
  /\ pc = "returned"
  /\ \E i \in C31_Submitted : result[i] = "raise" /\ entered[i] = 0

\* ------------------------------------------------------------------ C32
\* the tasks that are inside their verify / fix call
C32_Running == {i \in 1..Len(files) : future[i] = "running"}

\* C32: the file list handed to the Reporter holds each path at most once,
\* and no two tasks of a run are verifying or fixing the same file at the
\* same time.
C32_EachPathOnce ==
  options # <<>> =>
    /\ \A i, j \in 1..Len(files) : i # j => files[i] # files[j]
    /\ \A i, j \in C32_Running : i # j => files[i] # files[j]

\* C32, for a command line that names no path twice and none the selected
\* group has: the list holds each path at most once.
C32_EachPathOnceIfDisjoint ==
  (/\ options # <<>>
   /\ \A i, j \in 1..Len(options[1].file) :
        i # j => options[1].file[i] # options[1].file[j]
   /\ \A i \in 1..Len(options[1].found), j \in 1..Len(options[1].file) :
        options[1].found[i] # options[1].file[j])
  => \A i, j \in 1..Len(files) : i # j => files[i] # files[j]

\* a path of the selected group was also named on the command line, and two
\* tasks are fixing it at the same time
C32_SameFileTwice ==
  /\ options # <<>>
  /\ Len(options[1].found) = 1
  /\ Len(options[1].file) = 1
  /\ options[1].found[1] = options[1].file[1]
  /\ fix
  /\ C32_Running = {1, 2}

\* ------------------------------------------------------------------ C33
\* the paths of the parsed deltas are those of the deltas the text was
\* rendered from, which its file header lines carry
C33_PathsOfHeaders ==
  /\ Len(parsed) = Len(known)
  /\ \A n \in 1..Len(known) :
       /\ parsed[n].from_path = known[n].from_path
       /\ parsed[n].to_path = known[n].to_path

\* C33: a hunk body line never changes the paths of a delta: whatever the
\* removed, added and context lines of the hunks are, the paths Git.diff
\* returns are those of the file header lines.
C33_BodyKeepsPaths == diff_pc = "done" => C33_PathsOfHeaders

\* Git.diff returned a modified file as a rename of `x`, a path that only
\* a removed line of a hunk body names
C33_BodyRenames ==
  /\ diff_pc = "done"
  /\ Len(known) = 1
  /\ Len(parsed) = 1
  /\ known[1].from_path = "f"
  /\ known[1].to_path = "f"
  /\ parsed[1].from_path = "x"
  /\ is_rename(parsed[1])

\* ------------------------------------------------------------------ C34
\* the number of line numbers of a closed interval
C34_Lines(i) == i.end - i.start + 1

\* one side of the hunk header just read has the explicit count l >= 1, and
\* the interval appended for it holds exactly l line numbers
C34_SideExact(entries, changes) ==
  (Len(entries) = 2 /\ ParseInt(entries[2]) >= 1) =>
    /\ changes # <<>>
    /\ C34_Lines(changes[Len(changes)]) = ParseInt(entries[2])

\* C34: for a hunk range with explicit count l >= 1 the interval appended
\* holds exactly l line numbers, so `n,1` gives [n, n] as an omitted count
\* does.
C34_CountIsLength ==
  [][C21_HunkRead =>
       /\ C34_SideExact(last'.from, change'[1].from_changes)
       /\ C34_SideExact(last'.to, change'[1].to_changes)]_vars

\* the same of LineInterval.from_start_and_length: the interval of a start
\* and a length l >= 1 holds exactly l line numbers
C34_FromStartAndLengthExact ==
  \A n \in 1..MaxLines, l \in 1..MaxLines :
    C34_Lines(from_start_and_length(n, l)) = l

\* `@@ -7,1 +7 @@` was read for a file: the old side's one line 7 became
\* the interval [7, 8], the new side's line 7 the interval [7, 7]
C34_OneLineTwoWide ==
  /\ diff_pc = "done"
  /\ Len(parsed) = 1
  /\ parsed[1].from_changes = <<[start |-> 7, end |-> 8]>>
  /\ parsed[1].to_changes = <<[start |-> 7, end |-> 7]>>

\* ------------------------------------------------------------------ C35
\* C35: in fix mode the exit status of a host script is nonzero whenever at
\* least one file could not be fixed, for every number of such files.
C35_FailureExitsNonzero ==
  (status # <<>> /\ fix /\ failing_files # <<>>) => status[1] # 0

\* C35, for fewer than 256 unfixed files: the exit status is their number.
C35_StatusIsCountBelowRange ==
  (status # <<>> /\ fix /\ Len(failing_files) < StatusRange) =>
    status[1] = Len(failing_files)

\* a run of check-python-codestyle.py --fix -j 1 over one file has reached
\* the call of _report_fix the way AfterFixRun says, for a file that passes
\* and for one that autopep8 could not fix
C35_AfterRunOfPassingFile ==
  script = "check-python-codestyle" /\ AfterFixRun("pass", "pass")
C35_AfterRunOfUnfixedFile ==
  script = "check-python-codestyle" /\ AfterFixRun("fail", "fail")

\* a fix run that could fix none of its 256 files has exited with status 0
C35_ExitZeroWithFailures ==
  /\ status = <<0>>
  /\ fix
  /\ Len(failing_files) = 256
  /\ ret = <<256>>

\* ------------------------------------------------------------------ C36
\* a thread is at the point of _on_job_complete where the progress bar is
\* redrawn: self._token.print() is its next call
C36_AtPrint(t) == show_progress /\ handler[t].pc = "classify"

\* C36: within one run the completed count never leaves 0..total, and
\* whenever print_progress_at is about to be called the count is in that
\* range and the total is not 0, so the call neither raises ValueError nor
\* divides by zero.
C36_CountWithinTotal ==
  /\ current_job \in 0..Len(files)
  /\ \A t \in Threads :
       C36_AtPrint(t) =>
         /\ ~ProgressError(current_job, Len(files))
         /\ Len(files) # 0

\* the bar is about to be redrawn for the last of two files
C36_Witness ==
  /\ Len(files) = 2
  /\ current_job = 2
  /\ bar.redraws = 1
  /\ \E t \in Threads : C36_AtPrint(t)

\* ------------------------------------------- the files git says changed
\* the names `git diff --name-only` can list: a C source, a file whose
\* name has no suffix, and one whose name ends with a dot
ChangedNames == {<<"a", ".", "c">>, <<"m">>, <<"a", ".", "c", ".">>}

\* the lists of at most MaxChanged different names
ChangedLists ==
  {n \in UNION {[1..k -> ChangedNames] : k \in 0..MaxChanged} :
     \A i, j \in 1..Len(n) : i # j => n[i] # n[j]}

\* what git prints for a list of changed names: each name on its own line
RECURSIVE NameOnly(_)
NameOnly(names) ==
  IF names = <<>> THEN <<>>
  ELSE Head(names) \o <<"\n">> \o NameOnly(Tail(names))

\* the working directories a Git object is built with: none, or the root
\* of the repository, a directory named `root` or one named `r.c`
RepositoryRoot == "/w/root"
DottedRoot == "/w/r.c"
WorkingDirectories == {None, RepositoryRoot, DottedRoot}

\* self._cwd / Path(p), or Path(p) without a working directory; Path('')
\* has no name, and joined to a directory it is that directory
PathOf(cwd, p) == [cwd |-> cwd, name |-> p]

\* PurePath.name: the last component of the path, which for a directory
\* joined with Path('') is the name of the directory, and for Path('') alone
\* is empty
name(path) ==
  IF path.name # <<>> THEN path.name
  ELSE IF path.cwd = RepositoryRoot THEN <<"r", "o", "o", "t">>
  ELSE IF path.cwd = DottedRoot THEN <<"r", ".", "c">>
  ELSE <<>>

\* Git.changed_files over the output of the git command
changed_files(output, cwd) ==
  LET lines == split(strip(output), "\n")
  IN  [i \in 1..Len(lines) |-> PathOf(cwd, lines[i])]

\* The names git lists need not be files when the paths are used: a
\* staged file may have been removed from the work tree since, or replaced
\* by a directory. `regular` is the set of listed names that are regular
\* files in the work tree.
WorkTrees(names) == SUBSET {names[i] : i \in 1..Len(names)}

\* Path.is_file(): the path names a regular file; a path without a name is
\* the working directory
IsFile(regular, path) == path.name \in regular

\* PurePath.suffix: from the last dot of the name, when that dot is neither
\* the first nor the last character of the name
suffix(path) ==
  LET n == name(path)
      dots == {i \in 1..Len(n) : n[i] = "."}
      rfind == IF dots = {} THEN 0
               ELSE CHOOSE i \in dots : \A j \in dots : j <= i
  IN  IF 1 < rfind /\ rfind < Len(n) THEN SubSeq(n, rfind, Len(n)) ELSE <<>>

\* the EXTENSIONS of a host script, as far as ChangedNames can tell them apart
Extensions == {<<".", "c">>, <<".", "h">>}

\* SourceGroup.find_staged / find_modified with no filter
find_staged(changed) == changed

\* SourceGroup.find_with_extensions
find_with_extensions(changed, extensions) ==
  SelectSeq(changed, LAMBDA x : suffix(x) \in extensions)

\* make_options_for with --source-group=staged or modified and no file
\* argument: the files are what the group finds, with the extensions of the
\* script or with none, and options.staged is True for the staged group
\* unless --no-staged says otherwise, or with --staged
MakeOptionsForGroup ==
  /\ script # "none"
  /\ options = <<>>
  /\ \E names \in ChangedLists, cwd \in WorkingDirectories, ext \in BOOLEAN,
        group \in {"staged", "modified"}, arg \in StagedArguments :
      \E regular \in WorkTrees(names) :
       LET output == NameOnly(names)
           changed == changed_files(output, cwd)
           found == IF ext THEN find_with_extensions(changed, Extensions)
                    ELSE find_staged(changed)
       IN  /\ options' = <<[fix |-> IF IsFixer(reportable) THEN argv_fix
                                    ELSE FALSE,
                            group |-> group, staged |-> arg,
                            names |-> names, regular |-> regular,
                            stdout |-> output,
                            changed |-> changed, extensions |-> ext,
                            found |-> found, file |-> <<>>,
                            files |-> Files(found, <<>>)]>>
           /\ files' = Files(found, <<>>)
           /\ staged' = read_from_stage(group, arg)
  /\ UNCHANGED <<reportable, fix, max_workers, pc, idx, ret, executor,
                 future, result, callbacks, queue, worker, handler, lock,
                 passing_files, failing_files, current_job, show_progress,
                 verbose, calls, bar, rendered, entered, script, argv_fix,
                 reports, status, worktree, index, run, todo, fixed,
                 check_vars, diff_vars, tidy_vars>>

NextGroup ==
  \/ MakeOptionsForGroup
  \/ HostReport
  \/ Submit
  \/ AddDoneCallback
  \/ NextFile
  \/ Shutdown
  \/ Render
  \/ \E w \in Workers : Take(w)
  \/ \E w \in Workers : Run(w)
  \/ \E t \in Threads : Acquire(t)
  \/ \E t \in Threads : Increment(t)
  \/ \E t \in Threads : Classify(t)
  \/ \E t \in Threads : Release(t)

SpecGroup == InitFiles /\ [][NextGroup]_vars

\* the options were built and git had printed nothing
C37_NoChanges == options # <<>> /\ options[1].stdout = <<>>

\* C37: when the git query prints nothing, Git.changed_files returns an empty
\* list, the staged or modified source group is empty, and no task is
\* dispatched for a path that is not a file.
C37_NoChangesNoFiles ==
  C37_NoChanges =>
    /\ options[1].changed = <<>>
    /\ options[1].found = <<>>
    /\ \A i \in 1..Len(files) :
         future[i] # "none" => IsFile(options[1].regular, files[i])

\* with the extensions of a host script the directory is filtered out again
\* unless its own name has one of the extensions, and the names git does
\* print come back as they were printed
C37_FilteredGroupKeepsFiles ==
  options # <<>> =>
    /\ options[1].extensions =>
         \A i \in 1..Len(files) :
           files[i].name # <<>> \/ files[i].cwd = DottedRoot
    /\ options[1].names # <<>> =>
         options[1].changed =
           [i \in 1..Len(options[1].names) |->
              PathOf(options[1].changed[1].cwd, options[1].names[i])]

\* git printed nothing, the group was filtered by the extensions of the
\* script, and a task runs verify on the working directory, whose name has
\* one of them
C37_DottedRootDispatched ==
  /\ C37_NoChanges
  /\ options[1].extensions
  /\ files = <<PathOf(DottedRoot, <<>>)>>
  /\ \E w \in Workers : worker[w] = 1

\* the staged group read without --staged or --no-staged sets options.staged
C37_StagedGroupReadsStage ==
  (options # <<>> /\ options[1].staged = None) =>
    (staged <=> options[1].group = "staged")

\* git printed nothing, and a task runs verify on the working directory
C37_DirectoryDispatched ==
  /\ C37_NoChanges
  /\ Len(files) = 1
  /\ files[1].name = <<>>
  /\ ~IsFile(options[1].regular, files[1])
  /\ future[1] # "none"
  /\ \E w \in Workers : worker[w] = 1

\* git listed a.c, which is no longer a file in the work tree, and a task
\* runs verify on it: outside the case of the claim, where git prints nothing
C37_RemovedFileDispatched ==
  /\ options # <<>>
  /\ options[1].names = <<<<"a", ".", "c">>>>
  /\ ~IsFile(options[1].regular, files[1])
  /\ \E w \in Workers : worker[w] = 1

\* --------------------------------------- a ReportEntry from a tool's output
\* the bytes a tool writes: a space and the letter h
ByteValues == {32, 104}

\* the byte strings of at most MaxStream bytes
Streams == UNION {[1..k -> ByteValues] : k \in 0..MaxStream}

\* a stream of a CompletedProcess: <<>> for None (not captured), or bytes
Captured == {<<>>} \cup {<<[bytes |-> b]>> : b \in Streams}

\* the character a byte decodes to
Chr(b) == CASE b = 32 -> " " [] b = 10 -> "\n" [] OTHER -> "h"

\* bytes.decode
decode(b) == [i \in 1..Len(b) |-> Chr(b[i])]

\* the text from_bytes computes for a stream: decoded and stripped, None if
\* that is empty or the stream is None
DecodedStripped(stream) ==
  IF stream = <<>> THEN <<>>
  ELSE LET t == strip(decode(stream[1].bytes))
       IN  IF t = <<>> THEN <<>> ELSE <<[str |-> t]>>

\* ReportEntry.__init__
ReportEntry(succeeded, stdout, stderr) ==
  [succeeded |-> succeeded, stdout |-> stdout, stderr |-> stderr]

\* ReportEntry.from_bytes: stdout_str and stderr_str are computed, and the
\* entry is built from the arguments
from_bytes(succeeded, stdout, stderr) ==
  LET stdout_str == DecodedStripped(stdout)
      stderr_str == DecodedStripped(stderr)
  IN  ReportEntry(succeeded, stdout, stderr)

\* _on_job_complete: the sections the dump of a failure prints when verbose
VerboseSections(vb, e) ==
  IF vb /\ ~e.succeeded
  THEN (IF e.stdout # <<>>
        THEN <<[stream |-> "stdout", text |-> e.stdout[1]]>> ELSE <<>>)
       \o (IF e.stderr # <<>>
           THEN <<[stream |-> "stderr", text |-> e.stderr[1]]>> ELSE <<>>)
  ELSE <<>>

\* the messages print and print_error are called with here: None (<<>>),
\* the empty string and a string of one letter
Messages == {<<>>, <<[str |-> <<>>]>>, <<[str |-> <<"h">>]>>}

\* `x or ""` for a stream x of an entry: None, b'' and '' are falsy
OrEmpty(x) ==
  IF x = <<>> THEN <<[str |-> <<>>]>>
  ELSE IF "bytes" \in DOMAIN x[1]
  THEN IF x[1].bytes = <<>> THEN <<[str |-> <<>>]>> ELSE x
  ELSE x

\* `x += message` raises TypeError when x is bytes: bytes and str do not
\* concatenate
AddRaises(x, message) == "bytes" \in DOMAIN OrEmpty(x)[1]

\* ReportEntry.print and print_error on the stream x: what the stream is
\* when the call is left, by its return or by the TypeError
AddMessage(x, message) ==
  IF message = <<>> \/ AddRaises(x, message) THEN x
  ELSE <<[str |-> OrEmpty(x)[1].str \o message[1].str]>>

\* the length of the text or the bytes of a stream
StreamLen(x) ==
  IF x = <<>> THEN 0
  ELSE IF "bytes" \in DOMAIN x[1] THEN Len(x[1].bytes) ELSE Len(x[1].str)

\* a tool has run on the one file of a Reporter, and its CompletedProcess
\* is there
InitEntry ==
  /\ files = <<1>>
  /\ reportable = "VerifierFixer"
  /\ show_progress = FALSE
  /\ verbose \in BOOLEAN
  /\ Constructed
  /\ NoFixRuns
  /\ NoDiff
  /\ tidy_pc = "none"
  /\ procs = {}
  /\ line_filters = <<>>
  /\ \E returncode \in {0, 1}, out \in Captured, err \in Captured :
       process = [returncode |-> returncode, stdout |-> out, stderr |-> err]
  /\ entry = <<>>
  /\ printed = <<>>
  /\ entry_pc = "ok"
  /\ command = <<>>
  /\ postfix = <<>>
  /\ NoMain
  /\ NoChecks

\* ReportEntry.from_completed_process
FromCompletedProcess ==
  /\ entry = <<>>
  /\ entry' = <<from_bytes(process.returncode = 0, process.stdout,
                           process.stderr)>>
  /\ UNCHANGED <<process, printed, entry_pc, command, postfix, tidy_pc,
                 procs, line_filters, reporter_vars, fix_vars, main_vars,
                 check_vars, diff_vars>>

\* ReportEntry.print(message), called on the entry before it is handed to
\* the Reporter: None returns at once, otherwise `self.stdout = self.stdout
\* or ""` and `self.stdout += message`
EntryPrint(message) ==
  /\ entry # <<>>
  /\ entry_pc = "ok"
  /\ current_job = 0
  /\ StreamLen(AddMessage(entry[1].stdout, message)) <= MaxStream
  /\ entry' = <<[entry[1] EXCEPT
                   !.stdout = AddMessage(entry[1].stdout, message)]>>
  /\ entry_pc' = IF message # <<>> /\ AddRaises(entry[1].stdout, message)
                 THEN "TypeError" ELSE "ok"
  /\ UNCHANGED <<process, printed, command, postfix, tidy_pc, procs,
                 line_filters, reporter_vars, fix_vars, main_vars, check_vars,
                 diff_vars>>

\* ReportEntry.print_error(message): the same on self.stderr
EntryPrintError(message) ==
  /\ entry # <<>>
  /\ entry_pc = "ok"
  /\ current_job = 0
  /\ StreamLen(AddMessage(entry[1].stderr, message)) <= MaxStream
  /\ entry' = <<[entry[1] EXCEPT
                   !.stderr = AddMessage(entry[1].stderr, message)]>>
  /\ entry_pc' = IF message # <<>> /\ AddRaises(entry[1].stderr, message)
                 THEN "TypeError" ELSE "ok"
  /\ UNCHANGED <<process, printed, command, postfix, tidy_pc, procs,
                 line_filters, reporter_vars, fix_vars, main_vars, check_vars,
                 diff_vars>>

\* _on_job_complete for the file with the entry as its result, from taking
\* the lock to leaving it: the token is incremented, a failure is dumped
\* when verbose (the bar is cleared first and redrawn after when progress
\* is shown), and the file goes to the passing or to the failing list
OnJobCompleteDump ==
  /\ entry # <<>>
  /\ entry_pc = "ok"
  /\ current_job = 0
  /\ LockFree(lock)
  /\ current_job' = TokenIncrement(current_job)
  /\ printed' = VerboseSections(verbose, entry[1])
  /\ LET dumped == IF verbose /\ ~entry[1].succeeded /\ show_progress
                   THEN BarClear(bar) ELSE bar
         raises == show_progress
                     /\ ProgressError(current_job', Len(files))
     IN  /\ bar' = IF show_progress /\ ~raises THEN BarPrint(dumped)
                   ELSE dumped
         /\ passing_files' = IF ~raises /\ entry[1].succeeded
                              THEN Append(passing_files, files[1])
                              ELSE passing_files
         /\ failing_files' = IF ~raises /\ ~entry[1].succeeded
                              THEN Append(failing_files, files[1])
                              ELSE failing_files
  /\ UNCHANGED <<process, entry, entry_pc, command, postfix, tidy_pc,
                 procs, line_filters, files, reportable, fix, max_workers,
                 pc, idx, ret, executor, future, result, callbacks, queue,
                 worker, handler, lock, show_progress, verbose, calls,
                 rendered, entered, fix_vars, main_vars, check_vars,
                 diff_vars>>

NextEntry ==
  \/ FromCompletedProcess
  \/ \E message \in Messages : EntryPrint(message)
  \/ \E message \in Messages : EntryPrintError(message)
  \/ OnJobCompleteDump

SpecEntry == InitEntry /\ [][NextEntry]_vars

\* C38: the entry built from a process holds stdout and stderr as decoded,
\* stripped text, None for an empty or whitespace-only stream, and the
\* verbose dump prints no section for such a stream.
C38_EntryHoldsStrippedText ==
  entry # <<>> =>
    /\ entry[1].stdout = DecodedStripped(process.stdout)
    /\ entry[1].stderr = DecodedStripped(process.stderr)
    /\ \A k \in 1..Len(printed) :
         DecodedStripped(process[printed[k].stream]) # <<>>

\* a stream of the entry that print or print_error has made a str
IsStr(x) == x # <<>> /\ "str" \in DOMAIN x[1]

\* what does hold: the entry has the streams of the process as they were,
\* until print or print_error replaces one, and a stream that is None in
\* the entry gets no section
C38_EntryHoldsBytes ==
  entry # <<>> =>
    /\ entry[1].succeeded = (process.returncode = 0)
    /\ ~IsStr(entry[1].stdout) => entry[1].stdout = process.stdout
    /\ ~IsStr(entry[1].stderr) => entry[1].stderr = process.stderr
    /\ \A k \in 1..Len(printed) : entry[1][printed[k].stream] # <<>>

\* print was called on an entry whose stdout is the bytes of the tool, and
\* the call raised
C38_PrintOnBytesRaises ==
  /\ entry # <<>>
  /\ entry_pc = "TypeError"
  /\ entry[1].stdout = process.stdout

\* print('h') on an entry whose stdout is None left the text h, and the
\* handler filed the file of the failed entry
C38_PrintedMessageFiled ==
  /\ entry # <<>>
  /\ process.stdout = <<>>
  /\ entry[1].stdout = <<[str |-> <<"h">>]>>
  /\ failing_files = <<1>>
  /\ current_job = 1

\* the tool wrote nothing to its standard output, and the dump has a
\* section for it
C38_EmptySectionPrinted ==
  /\ process.stdout = <<[bytes |-> <<>>]>>
  /\ entry # <<>>
  /\ \E k \in 1..Len(printed) : printed[k].stream = "stdout"

\* ------------------------------------------- the command line of ClangTidy
\* arguments are strings, written as the sequences of their characters
QuietArgument == <<"-", "-", "q", "u", "i", "e", "t">>
ChecksArgument == <<"-", "-", "c", "h", "e", "c", "k", "s", "=", "x">>
FixArgument == <<"-", "-", "f", "i", "x">>
FixErrorsArgument ==
  <<"-", "-", "f", "i", "x", "-", "e", "r", "r", "o", "r", "s">>

\* the files of one invocation
TidyFiles == <<<<"a", ".", "c">>, <<"b", ".", "c">>>>

\* ClangTidy.__init__: self._command from the arguments of the constructor
ClangTidyCommand(checks, quiet, fx, fix_errors) ==
  (IF checks THEN <<ChecksArgument>> ELSE <<>>)
  \o (IF quiet THEN <<QuietArgument>> ELSE <<>>)
  \o (IF fx THEN <<FixArgument>> ELSE <<>>)
  \o (IF fix_errors THEN <<FixErrorsArgument>> ELSE <<>>)

\* what iterating a str yields: its characters, each a string of its own
Characters(s) == [i \in 1..Len(s) |-> <<s[i]>>]

\* list.extend(iterable)
extend(list, iterable) == list \o iterable

\* `x in list`
In(x, list) == \E i \in 1..Len(list) : list[i] = x

\* ClangTidy._postfix_command with no line filters; fs is <<>> for None
postfix_command(cmd, fs, fx, fix_errors) ==
  LET c1 == IF fs # <<>> THEN extend(cmd, fs[1]) ELSE cmd
      c2 == IF fx /\ ~In(FixArgument, c1)
            THEN extend(c1, Characters(FixArgument)) ELSE c1
  IN  IF fix_errors /\ ~In(FixErrorsArgument, c2)
      THEN extend(c2, Characters(FixErrorsArgument)) ELSE c2

\* a ClangTidy driver was constructed
InitCommand ==
  /\ files = <<>>
  /\ reportable = "VerifierFixer"
  /\ show_progress = FALSE
  /\ verbose = FALSE
  /\ Constructed
  /\ NoFixRuns
  /\ NoDiff
  /\ tidy_pc = "none"
  /\ procs = {}
  /\ line_filters = <<>>
  /\ process = <<>>
  /\ entry = <<>>
  /\ printed = <<>>
  /\ entry_pc = "ok"
  /\ \E checks \in BOOLEAN, quiet \in BOOLEAN, fx \in BOOLEAN,
        fix_errors \in BOOLEAN :
       command = ClangTidyCommand(checks, quiet, fx, fix_errors)
  /\ postfix = <<>>
  /\ NoMain
  /\ NoChecks

\* one call of _postfix_command on the driver
PostfixCommand ==
  /\ postfix = <<>>
  /\ \E n \in 0..MaxTidyFiles, given \in BOOLEAN, fx \in BOOLEAN,
        fix_errors \in BOOLEAN :
       /\ n <= Len(TidyFiles)
       /\ given \/ n = 0
       /\ LET fs == IF given THEN <<SubSeq(TidyFiles, 1, n)>> ELSE <<>>
          IN  postfix' = <<[files |-> fs, fix |-> fx,
                            fix_errors |-> fix_errors,
                            result |-> postfix_command(command, fs, fx,
                                                       fix_errors)]>>
  /\ UNCHANGED <<process, entry, printed, entry_pc, command, tidy_pc, procs,
                 line_filters, reporter_vars, fix_vars, main_vars, check_vars,
                 diff_vars>>

NextCommand == PostfixCommand

SpecCommand == InitCommand /\ [][NextCommand]_vars

\* how often an argument is in a command
C39_Count(x, list) == Cardinality({i \in 1..Len(list) : list[i] = x})

\* how many arguments the files of a call are
C39_FileCount(fs) == IF fs = <<>> THEN 0 ELSE Len(fs[1])

\* a flag that is requested and not configured adds one argument
C39_Added(requested, x) ==
  IF requested /\ ~In(x, command) THEN 1 ELSE 0

\* C39: when fix (or fix_errors) is requested for a call and not configured,
\* the command gains exactly one argument, equal to --fix (--fix-errors),
\* and the flag is never in the command twice.
C39_FlagAddedOnce ==
  postfix # <<>> =>
    LET a == postfix[1]
    IN  /\ Len(a.result) =
             Len(command) + C39_FileCount(a.files)
             + C39_Added(a.fix, FixArgument)
             + C39_Added(a.fix_errors, FixErrorsArgument)
        /\ a.fix => C39_Count(FixArgument, a.result) = 1
        /\ a.fix_errors => C39_Count(FixErrorsArgument, a.result) = 1
        /\ C39_Count(FixArgument, a.result) <= 1
        /\ C39_Count(FixErrorsArgument, a.result) <= 1

\* what does hold: neither flag is in the command twice, a configured flag
\* stays, and a call that requests nothing adds only its files
C39_NeverTwice ==
  postfix # <<>> =>
    LET a == postfix[1]
    IN  /\ C39_Count(FixArgument, a.result) <= 1
        /\ C39_Count(FixErrorsArgument, a.result) <= 1
        /\ In(FixArgument, command) => In(FixArgument, a.result)
        /\ (~a.fix /\ ~a.fix_errors) =>
             a.result = command \o (IF a.files = <<>> THEN <<>>
                                    ELSE a.files[1])

\* fix was requested for a call on a driver without it, and the command
\* ends with the five characters of the flag as five arguments
C39_FlagSpelledOut ==
  /\ postfix # <<>>
  /\ ~In(FixArgument, command)
  /\ postfix[1].fix
  /\ ~postfix[1].fix_errors
  /\ ~In(FixArgument, postfix[1].result)
  /\ Len(postfix[1].result) =
       Len(command) + C39_FileCount(postfix[1].files) + 5

====
